---- MODULE Spec2Model ----
(***************************************************************************)
(* goosuke: dispatch of API triggers and chat reactions to the external    *)
(* agent, and the TaskExecution records that track each dispatch.          *)
(*                                                                         *)
(* Every coroutine (TaskService.execute_task, ActionService.trigger_action,*)
(* the on_reaction_add handler) runs in a slot of the cooperative event    *)
(* loop; one action of the model is the code between two suspension points *)
(* (await) of a coroutine.  Optional text columns use the string NoneStr,  *)
(* optional integer columns and ids use 0.                                 *)
(***************************************************************************)
EXTENDS Integers, Sequences, FiniteSets, TLC

\* ---- bounds ------------------------------------------------------------
MaxDispatch == 2

\* longest agent output, in pieces, that execute_task is given
MaxOutput == 4

\* longest text of escape-sequence characters that is cleaned
MaxText == 4

\* most lines of a text of banner lines that is cleaned
MaxLines == 6

\* longest message, and largest chunk size, that _split_message is given
MaxMessage == 6

MaxChunk == 4

\* ---- values ------------------------------------------------------------
NoneStr == "<None>"

NoId == 0

NoTime == 0

EmptyMap == {}

\* a JSON column that is NULL
NoneMap == {<<NoneStr, 0>>}

\* one slot per request or event the process receives
Slots == 1 .. MaxDispatch

\* a dict that holds nothing yet (no executor result / no return value)
NoDict == [none |-> TRUE]

\* no function is being called on its own
NoCall == [fn |-> "none"]

\* task_templates rows (id -> prompt); id 2 is referenced but has no row
templates == [t \in {1} |-> [id |-> t, prompt |-> "summarize"]]

TemplateIds == {1, 2}

\* contexts a caller of execute_task / create_task_execution may hand in
ApiContexts == {[param |-> "value"]}

\* outcomes of one call of TaskExecutor.execute_task as its callers see it:
\* the success map, the failure map (no extensions_output key), an exception
ExecutorReturns ==
    { [success |-> TRUE, output |-> "out", extensions_output |-> {<<"k", 1>>}],
      [success |-> FALSE, output |-> "boom"] }

ExecutorRaises == {"exc"}

\* what the awaited executor call resumes its caller with: a returned map,
\* or a raised exception
Outcomes ==
    {[res |-> r, exc |-> NoneStr] : r \in ExecutorReturns}
        \cup {[res |-> NoDict, exc |-> e] : e \in ExecutorRaises}

\* invocation is the frame of a function called on its own: its arguments, and its
\* result once it has returned
VARIABLES executions, statusLog, actions, tasks, slots, invocation,
          discord_configs

vars == <<executions, statusLog, actions, tasks, slots, invocation,
          discord_configs>>

\* ---- helpers -----------------------------------------------------------
\* dict.get(key, default) on a map modelled as a record
DictGet(d, key, default) == IF key \in DOMAIN d THEN d[key] ELSE default

\* Python truthiness of an optional text argument
Truthy(x) == x # NoneStr /\ x # ""

IdleSlot ==
    [kind |-> "idle", pc |-> "idle", actionId |-> NoId, tmpl |-> NoId,
     ctx |-> NoDict, execId |-> NoId, taskId |-> NoId, res |-> NoDict,
     exc |-> NoneStr, ret |-> NoDict, invoked |-> FALSE,
     msg |-> NoDict, user |-> NoDict, cfg |-> NoDict, act |-> NoDict,
     ph |-> NoneStr, apology |-> FALSE, fault |-> NoneStr, raised |-> FALSE,
     payload |-> NoDict, configId |-> NoId, emoji |-> NoneStr]

\* TaskExecution(template_id=..., context=..., status=...): the other columns
\* take their defaults (NULL)
NewExecution(tid, ctx, status) ==
    [template_id |-> tid, context |-> ctx, status |-> status,
     result |-> NoneStr, extensions_output |-> NoneMap,
     error |-> NoneStr, completed_at |-> NoTime]

\* the record is built but never reaches the table
CommitNew_lost(execs, rec) == execs

\* db.add(task_execution); await db.commit(); await db.refresh(task_execution)
CommitNew(execs, rec) == Append(execs, rec)

\* every refresh reports the id of the first row
RefreshedId_first(execs) == 1

\* the id db.refresh loads into the new object: the autoincrement key of the
\* row just inserted
RefreshedId(execs) == Len(execs)

\* the stamp of lines 145-146 is taken for "completed" only
IsTerminalStatus_completedOnly(status) == status = "completed"

\* `status == "completed" or status == "failed"` (line 145)
IsTerminalStatus(status) == status = "completed" \/ status = "failed"

\* the stamp is assigned but the row keeps the value it had
Now_stale(previous) == previous

\* datetime.now() for a stamp: a time later than the one it replaces
Now(previous) == previous + 1

\* a new coroutine takes the first free slot of the event loop
FreeSlot(s) ==
    /\ slots[s].pc = "idle"
    /\ \A t \in Slots : t < s => slots[t].pc # "idle"

\* ---- TaskService.create_task_execution ---------------------------------
create_task_execution(tid, ctx) ==
    /\ executions' = CommitNew(executions, NewExecution(tid, ctx, "pending"))
    /\ statusLog' = Append(statusLog, <<"pending">>)

\* ---- TaskService.update_task_execution ---------------------------------
\* the row after the assignments of lines 135-146
UpdatedExecution(row, status, result, error, now) ==
    LET r1 == IF Truthy(status) THEN [row EXCEPT !.status = status] ELSE row
        r2 == IF result # NoDict
              THEN [r1 EXCEPT !.result = DictGet(result, "output", ""),
                              !.extensions_output =
                                  DictGet(result, "extensions_output", EmptyMap)]
              ELSE r1
        r3 == IF Truthy(error) THEN [r2 EXCEPT !.error = error] ELSE r2
    IN  IF IsTerminalStatus(status) THEN [r3 EXCEPT !.completed_at = now] ELSE r3

update_task_execution(id, status, result, error) ==
    /\ id \in DOMAIN executions
    /\ executions' = [executions EXCEPT
                        ![id] = UpdatedExecution(@, status, result, error,
                                                Now(@.completed_at))]
    /\ statusLog' = [statusLog EXCEPT
                        ![id] = IF Truthy(status) THEN Append(@, status) ELSE @]

\* ---- callers outside the handlers --------------------------------------
CreateTaskExecution(s, tid, ctx) ==
    /\ FreeSlot(s)
    /\ create_task_execution(tid, ctx)
    /\ slots' = [slots EXCEPT ![s] =
                    [IdleSlot EXCEPT !.kind = "create_task_execution", !.pc = "done",
                                     !.tmpl = tid, !.ctx = ctx,
                                     !.execId = RefreshedId(executions')]]
    /\ UNCHANGED <<actions, tasks, invocation, discord_configs>>

\* the argument lists a caller passes: a status alone, the handler's
\* (completed, result), the test's (failed, result, error), an error alone
UpdateCalls ==
    {[status |-> "pending", result |-> NoDict, error |-> NoneStr],
     [status |-> "processing", result |-> NoDict, error |-> NoneStr],
     [status |-> "completed", result |-> [output |-> "edited"], error |-> NoneStr],
     [status |-> "failed", result |-> [output |-> "edited"], error |-> "manual"],
     [status |-> NoneStr, result |-> NoDict, error |-> "manual"]}

UpdateTaskExecution(s, id, call) ==
    /\ FreeSlot(s)
    /\ update_task_execution(id, call.status, call.result, call.error)
    /\ slots' = [slots EXCEPT ![s] =
                    [IdleSlot EXCEPT !.kind = "update_task_execution", !.pc = "done",
                                     !.execId = id]]
    /\ UNCHANGED <<actions, tasks, invocation, discord_configs>>

\* ---- TaskService.execute_task ------------------------------------------
TemplateNotFound == [success |-> FALSE, output |-> "template not found"]

\* lines 180-197: template lookup, then the record is added and committed
ET_Begin(s, tid, ctx) ==
    /\ FreeSlot(s)
    /\ IF tid \notin DOMAIN templates
       THEN /\ slots' = [slots EXCEPT ![s] =
                           [IdleSlot EXCEPT !.kind = "execute_task", !.pc = "done",
                                            !.tmpl = tid, !.ctx = ctx,
                                            !.ret = TemplateNotFound]]
            /\ UNCHANGED <<executions, statusLog>>
       ELSE /\ executions' = CommitNew(executions, NewExecution(tid, ctx, "processing"))
            /\ statusLog' = Append(statusLog, <<"processing">>)
            /\ slots' = [slots EXCEPT ![s] =
                           [IdleSlot EXCEPT !.kind = "execute_task", !.pc = "invoke",
                                            !.tmpl = tid, !.ctx = ctx,
                                            !.execId = RefreshedId(executions')]]
    /\ UNCHANGED <<actions, tasks, invocation, discord_configs>>

\* line 201: the call of the executor suspends the coroutine
ET_Invoke(s) ==
    /\ slots[s].kind = "execute_task"
    /\ slots[s].pc = "invoke"
    /\ slots' = [slots EXCEPT ![s].pc = "agent_wait", ![s].invoked = TRUE]
    /\ UNCHANGED <<executions, statusLog, actions, tasks, invocation, discord_configs>>

\* every executor return is recorded as completed
ExecutedRow_alwaysCompleted(row, res, exc, now) ==
    IF exc # NoneStr
    THEN [row EXCEPT !.status = "failed", !.error = exc, !.completed_at = now]
    ELSE [row EXCEPT !.result = res.output, !.status = "completed",
                     !.completed_at = now]

\* lines 206-210 / 225-227 applied to the stored row.  The session flushes
\* only the attributes whose value differs from the one it loaded, and it
\* loaded result = error = NULL and status = "processing".
ExecutedRow(row, res, exc, now) ==
    IF exc # NoneStr
    THEN [row EXCEPT !.status = "failed", !.error = exc, !.completed_at = now]
    ELSE LET r1 == [row EXCEPT !.result = res.output,
                               !.extensions_output =
                                   DictGet(res, "extensions_output", EmptyMap),
                               !.status = IF res.success THEN "completed" ELSE "failed",
                               !.completed_at = now]
         IN  IF res.success THEN r1 ELSE [r1 EXCEPT !.error = res.output]

\* the map returned at lines 215-221 / 231-237
ExecuteTaskResult(id, tid, res, exc) ==
    IF exc # NoneStr
    THEN [execution_id |-> id, template_id |-> tid, success |-> FALSE,
          output |-> exc, extensions_output |-> EmptyMap]
    ELSE [execution_id |-> id, template_id |-> tid, success |-> res.success,
          output |-> res.output,
          extensions_output |-> DictGet(res, "extensions_output", EmptyMap)]

\* the loop resumes a coroutine only while no agent run hangs
CanResume_serial(s) ==
    slots[s].pc = "agent_wait" /\ \A t \in Slots : slots[t].pc # "agent_hung"

\* the await of line 201 is resumed as soon as its own executor call is
\* over; it waits for nothing else
CanResume(s) == slots[s].pc = "agent_wait"

\* lines 203-237: the executor call returns or raises, and the coroutine
\* runs to its end
ET_Finish(s, o) ==
    /\ slots[s].kind = "execute_task"
    /\ CanResume(s)
    /\ LET id == slots[s].execId
           row == ExecutedRow(executions[id], o.res, o.exc,
                              Now(executions[id].completed_at))
       IN  /\ executions' = [executions EXCEPT ![id] = row]
           /\ statusLog' = [statusLog EXCEPT ![id] = Append(@, row.status)]
           /\ slots' = [slots EXCEPT
                           ![s].pc = "done", ![s].res = o.res, ![s].exc = o.exc,
                           ![s].ret = ExecuteTaskResult(id, slots[s].tmpl,
                                                        o.res, o.exc)]
    /\ UNCHANGED <<actions, tasks, invocation, discord_configs>>

\* ---- chat trigger configuration ----------------------------------------
\* config_discord rows
InitDiscordConfigs ==
    <<[id |-> 1, catch_type |-> "reaction", catch_value |-> "pencil",
       message_type |-> "single", response_format |-> "reply"],
      [id |-> 2, catch_type |-> "reaction", catch_value |-> "off",
       message_type |-> "single", response_format |-> "reply"],
      [id |-> 3, catch_type |-> "reaction", catch_value |-> "lost",
       message_type |-> "thread", response_format |-> "channel"],
      [id |-> 4, catch_type |-> "text", catch_value |-> "word",
       message_type |-> "single", response_format |-> "dm"]>>

\* action_configs rows: config 1 -> action 1, 2 -> action 2 (disabled),
\* 3 -> action 3 (its template has no row); config 4 is linked to nothing
action_configs ==
    {[action_id |-> 1, config_type |-> "discord", config_id |-> 1],
     [action_id |-> 2, config_type |-> "discord", config_id |-> 2],
     [action_id |-> 3, config_type |-> "discord", config_id |-> 3]}

Emojis == {"pencil", "off", "lost", "word", "thumbsup"}

\* the reacted message: one plain message, one reply to it
Messages ==
    {[id |-> 11, author |-> "alice", content |-> "hello", created_at |-> 5,
      reference |-> NoId, jump_url |-> "https://chat/11"],
     [id |-> 12, author |-> "bob", content |-> "re: hello", created_at |-> 6,
      reference |-> 11, jump_url |-> "https://chat/12"]}

Users ==
    {[name |-> "carol", mention |-> "<@1>", bot |-> FALSE],
     [name |-> "goosuke", mention |-> "<@2>", bot |-> TRUE]}

\* str(n) and datetime.isoformat() give text, not the number
Str(n) == <<"str", n>>

IsoFormat(t) == <<"iso", t>>

NoneRef == <<"None">>

\* ---- DiscordConfigService.get_discord_config_by_reaction ---------------
\* result.scalars().first(): the matching row of lowest id, or None
get_discord_config_by_reaction(reaction_value) ==
    LET hits == {i \in DOMAIN discord_configs :
                    /\ discord_configs[i].catch_type = "reaction"
                    /\ discord_configs[i].catch_value = reaction_value}
    IN  IF hits = {} THEN NoDict
        ELSE discord_configs[CHOOSE i \in hits : \A j \in hits : i <= j]

\* ---- ActionConfigService.get_action_by_config --------------------------
\* the query without its Action.is_enabled condition
get_action_by_config_any(config_type, config_id) ==
    LET hits == {a \in DOMAIN actions :
                    \E ac \in action_configs :
                        /\ ac.action_id = a
                        /\ ac.config_type = config_type
                        /\ ac.config_id = config_id}
    IN  IF hits = {} THEN NoDict
        ELSE LET a == CHOOSE i \in hits : \A j \in hits : i <= j
             IN  [id |-> a, task_template_id |-> actions[a].task_template_id,
                  is_enabled |-> actions[a].is_enabled]

get_action_by_config(config_type, config_id) ==
    LET hits == {a \in DOMAIN actions :
                    /\ \E ac \in action_configs :
                          /\ ac.action_id = a
                          /\ ac.config_type = config_type
                          /\ ac.config_id = config_id
                    /\ actions[a].is_enabled}
    IN  IF hits = {} THEN NoDict
        ELSE LET a == CHOOSE i \in hits : \A j \in hits : i <= j
             IN  [id |-> a, task_template_id |-> actions[a].task_template_id,
                  is_enabled |-> actions[a].is_enabled]

\* ---- TaskService.get_task_template -------------------------------------
get_task_template(template_id) ==
    IF template_id \in DOMAIN templates THEN templates[template_id] ELSE NoDict

\* ---- DiscordBotService._message_to_dict --------------------------------
message_to_dict(message) ==
    [id |-> Str(message.id),
     author |-> message.author,
     content |-> message.content,
     timestamp |-> IsoFormat(message.created_at),
     reference_id |-> IF message.reference # NoId
                      THEN Str(message.reference) ELSE NoneRef]

\* ---- DiscordBotService._collect_messages -------------------------------
\* the reacted message has no thread, so every strategy yields [message]
collect_messages(message, message_type) ==
    IF message_type = "single" THEN <<message>>
    ELSE IF message_type = "thread" THEN <<message>>
    ELSE <<message>>

\* the id the platform gives the placeholder message sent by slot s
PlaceholderId(s) == 900 + s

\* lines 95-107
ChatContext(s, message, user, discord_config) ==
    LET collected == collect_messages(message, discord_config.message_type)
    IN  [messages |-> [i \in DOMAIN collected |-> message_to_dict(collected[i])],
         channel_name |-> "general",
         channel_id |-> Str(1),
         processing_message_id |-> Str(PlaceholderId(s)),
         timestamp |-> IsoFormat(message.created_at),
         requested_by |-> user.name,
         discord_url |-> message.jump_url,
         catch_type |-> discord_config.catch_type,
         catch_value |-> discord_config.catch_value,
         response_format |-> discord_config.response_format,
         user_mention |-> user.mention]

\* ---- on_reaction_add ---------------------------------------------------
\* no reaction is taken for a bot's
IgnoredReaction_never(user) == FALSE

\* lines 56-57: reactions added by bots are ignored
IgnoredReaction(user) == user.bot

\* lines 56-65: bot reactions are dropped; the config lookup returns
RA_Begin(s, emoji, message, user) ==
    /\ FreeSlot(s)
    /\ LET base == [IdleSlot EXCEPT !.kind = "reaction", !.msg = message,
                                    !.user = user]
           cfg == get_discord_config_by_reaction(emoji)
       IN  slots' = [slots EXCEPT ![s] =
             IF IgnoredReaction(user) THEN [base EXCEPT !.pc = "done"]
             ELSE IF cfg = NoDict
             THEN [base EXCEPT !.pc = "done", !.emoji = emoji]
             ELSE [base EXCEPT !.pc = "ra_get_action", !.emoji = emoji,
                               !.cfg = cfg]]
    /\ UNCHANGED <<executions, statusLog, actions, tasks, invocation, discord_configs>>

\* lines 69-76: the linked-Action lookup returns
RA_GetAction(s) ==
    /\ slots[s].kind = "reaction"
    /\ slots[s].pc = "ra_get_action"
    /\ LET action == get_action_by_config("discord", slots[s].cfg.id)
       IN  slots' = [slots EXCEPT ![s] =
             IF action = NoDict THEN [@ EXCEPT !.pc = "done"]
             ELSE [@ EXCEPT !.pc = "ra_placeholder", !.act = action]]
    /\ UNCHANGED <<executions, statusLog, actions, tasks, invocation, discord_configs>>

\* ---- DiscordBotService._handle_discord_action --------------------------
\* line 89: the placeholder is sent; lines 92-107 build the context
RA_Placeholder(s) ==
    /\ slots[s].kind = "reaction"
    /\ slots[s].pc = "ra_placeholder"
    /\ slots' = [slots EXCEPT
                    ![s].pc = "ra_get_template",
                    ![s].ph = "processing",
                    ![s].ctx = ChatContext(s, slots[s].msg, slots[s].user,
                                           slots[s].cfg)]
    /\ UNCHANGED <<executions, statusLog, actions, tasks, invocation, discord_configs>>

\* lines 110-114: the template lookup returns
RA_GetTemplate(s) ==
    /\ slots[s].kind = "reaction"
    /\ slots[s].pc = "ra_get_template"
    /\ LET task == get_task_template(slots[s].act.task_template_id)
       IN  slots' = [slots EXCEPT ![s] =
             IF task = NoDict THEN [@ EXCEPT !.pc = "done", !.ph = "no_template"]
             ELSE [@ EXCEPT !.pc = "ra_create", !.tmpl = task.id]]
    /\ UNCHANGED <<executions, statusLog, actions, tasks, invocation, discord_configs>>

\* lines 117-119
RA_Create(s) ==
    /\ slots[s].kind = "reaction"
    /\ slots[s].pc = "ra_create"
    /\ create_task_execution(slots[s].act.task_template_id, slots[s].ctx)
    /\ slots' = [slots EXCEPT ![s].pc = "invoke", ![s].execId = RefreshedId(executions')]
    /\ UNCHANGED <<actions, tasks, invocation, discord_configs>>

\* line 122: goose_executor.execute suspends the handler
RA_Invoke(s) ==
    /\ slots[s].kind = "reaction"
    /\ slots[s].pc = "invoke"
    /\ slots' = [slots EXCEPT ![s].pc = "agent_wait", ![s].invoked = TRUE]
    /\ UNCHANGED <<executions, statusLog, actions, tasks, invocation, discord_configs>>

\* lines 124-139: the three ways the handler ends after the agent call
RA_Finish(s, o) ==
    /\ slots[s].kind = "reaction"
    /\ slots[s].pc = "agent_wait"
    /\ IF o.exc # NoneStr
       THEN /\ slots' = [slots EXCEPT ![s].pc = "ra_apology", ![s].exc = o.exc]
            /\ UNCHANGED <<executions, statusLog>>
       ELSE IF ~o.res.success
       THEN /\ slots' = [slots EXCEPT ![s].pc = "done", ![s].res = o.res,
                                      ![s].ph = "error"]
            /\ UNCHANGED <<executions, statusLog>>
       ELSE /\ update_task_execution(slots[s].execId, "completed", o.res, NoneStr)
            /\ slots' = [slots EXCEPT ![s].pc = "done", ![s].res = o.res]
    /\ UNCHANGED <<actions, tasks, invocation, discord_configs>>

\* line 65 is outside every try: when the trigger-config lookup raises, the
\* exception leaves on_reaction_add
RA_LookupRaises(s, message, user) ==
    /\ FreeSlot(s)
    /\ ~IgnoredReaction(user)
    /\ slots' = [slots EXCEPT ![s] =
                    [IdleSlot EXCEPT !.kind = "reaction", !.pc = "done",
                                     !.msg = message, !.user = user,
                                     !.fault = "ra_get_config", !.raised = TRUE]]
    /\ UNCHANGED <<executions, statusLog, actions, tasks, invocation, discord_configs>>

\* the call a suspended handler awaits raises instead of returning: the
\* linked-Action lookup (line 70) is outside the try; the placeholder send,
\* the template lookup and the record creation (lines 89-119) are inside
\* it and lead to the except clause of line 137
RA_Raises(s) ==
    /\ slots[s].kind = "reaction"
    /\ slots[s].pc \in {"ra_get_action", "ra_placeholder", "ra_get_template",
                        "ra_create"}
    /\ slots' = [slots EXCEPT ![s] =
                    IF slots[s].pc = "ra_get_action"
                    THEN [@ EXCEPT !.pc = "done", !.fault = slots[s].pc,
                                   !.raised = TRUE]
                    ELSE [@ EXCEPT !.pc = "ra_apology", !.fault = slots[s].pc]]
    /\ UNCHANGED <<executions, statusLog, actions, tasks, invocation, discord_configs>>

\* line 139: the apology send returns, or raises out of the except clause
RA_Apology(s, sent) ==
    /\ slots[s].kind = "reaction"
    /\ slots[s].pc = "ra_apology"
    /\ slots' = [slots EXCEPT ![s] =
                    IF sent THEN [@ EXCEPT !.pc = "done", !.apology = TRUE]
                    ELSE [@ EXCEPT !.pc = "done", !.raised = TRUE]]
    /\ UNCHANGED <<executions, statusLog, actions, tasks, invocation, discord_configs>>

\* ---- stored configuration ----------------------------------------------
\* tasks row 1 is the Task an Action refers to; later rows are the tasks
\* created by dispatches
ParentTask ==
    [task_type |-> "test", prompt |-> "summarize", context |-> NoDict,
     status |-> "completed", result |-> NoneStr, error |-> NoneStr,
     parent_id |-> NoId, completed_at |-> NoTime]

\* context_rules that is None or {}
NoRules == [none |-> TRUE]

\* JSON values of a payload: null, a number, a text (plain, or the decimal
\* digits of a number), a nested map
JNull == [t |-> "null"]

JInt(n) == [t |-> "int", n |-> n]

JText(s) == [t |-> "str", s |-> <<s>>]

JDigits(n) == [t |-> "str", s |-> <<"digits", n>>]

JMap(m) == [t |-> "map", m |-> m]

\* a number with a fractional part, n being its integer part
JFloat(n) == [t |-> "float", n |-> n]

\* the float infinity (json.loads accepts the literal Infinity)
JInf == [t |-> "inf"]

JBool(b) == [t |-> "bool", b |-> b]

JList == [t |-> "list"]

\* an exception that no except clause around the raising call names
Raise(e) == [t |-> "raise", exc |-> e]

\* actions rows: 1 enabled and complete, 2 disabled, 3 enabled with no task
\* and a template id without a row, 4 enabled with a task id without a row,
\* 5 enabled and complete with no extraction ruleset
InitActions ==
    <<[is_enabled |-> TRUE, task_id |-> 1, task_template_id |-> 1,
       context_rules |-> [key |-> [source |-> <<"data">>]],
       last_triggered_at |-> NoTime],
      [is_enabled |-> FALSE, task_id |-> 1, task_template_id |-> 1,
       context_rules |-> NoRules, last_triggered_at |-> NoTime],
      [is_enabled |-> TRUE, task_id |-> NoId, task_template_id |-> 2,
       context_rules |-> NoRules, last_triggered_at |-> NoTime],
      [is_enabled |-> TRUE, task_id |-> 7, task_template_id |-> 2,
       context_rules |-> NoRules, last_triggered_at |-> NoTime],
      [is_enabled |-> TRUE, task_id |-> 1, task_template_id |-> 1,
       context_rules |-> NoRules, last_triggered_at |-> NoTime]>>

\* ids a caller of trigger_action may pass; 5 has no row
ActionIds == 1 .. 6

Payloads == {[data |-> JText("input")]}

\* ---- ActionService._extract_context ------------------------------------
\* rule["source"].split("."): the source is given as its tokens, "." among
\* them; the parts are the texts between the dots
RECURSIVE SplitDots(_)
SplitDots(tokens) ==
    IF tokens = <<>> THEN <<"">>
    ELSE IF Head(tokens) = "." THEN <<"">> \o SplitDots(Tail(tokens))
    ELSE IF Len(tokens) = 1 THEN tokens
    ELSE <<Head(tokens)>> \o SplitDots(Tail(Tail(tokens)))

\* a value that is no map ends the walk and is itself taken as the result
RECURSIVE ResolvePath_leak(_, _)
ResolvePath_leak(source_value, source_path) ==
    IF source_path = <<>> THEN source_value
    ELSE IF source_value.t # "map" THEN source_value
    ELSE IF Head(source_path) \in DOMAIN source_value.m
    THEN ResolvePath_leak(source_value.m[Head(source_path)], Tail(source_path))
    ELSE JNull

\* lines 212-221: the walk along the path; a missing key ends it with None,
\* and so does a value that is no map: on a number, a bool or null `in`
\* raises TypeError, on a text or a list `in` is either false or followed by
\* a subscript that raises TypeError, and the TypeError is caught
RECURSIVE ResolvePath(_, _)
ResolvePath(source_value, source_path) ==
    IF source_path = <<>> THEN source_value
    ELSE IF source_value.t = "map" /\ Head(source_path) \in DOMAIN source_value.m
    THEN ResolvePath(source_value.m[Head(source_path)], Tail(source_path))
    ELSE JNull

\* str(value)
ToStr(value) ==
    IF value.t = "str" THEN value
    ELSE IF value.t = "int" THEN JDigits(value.n)
    ELSE JText("repr")

\* int(value), 0 when it raises ValueError or TypeError (lines 228-231):
\* a float is truncated, a bool is 0 or 1, other text raises ValueError, a
\* map or list raises TypeError, the float infinity raises OverflowError,
\* which the except clause does not name
ToInt(value) ==
    IF value.t = "int" THEN value
    ELSE IF value.t = "str" /\ Head(value.s) = "digits" THEN JInt(value.s[2])
    ELSE IF value.t = "float" THEN JInt(value.n)
    ELSE IF value.t = "bool" THEN JInt(IF value.b THEN 1 ELSE 0)
    ELSE IF value.t = "inf" THEN Raise("OverflowError")
    ELSE JInt(0)

\* a rule that finds nothing and has no default stores None under its key
RuleEntry_null(input_data, rule) ==
    IF "source" \in DOMAIN rule
    THEN LET source_value == ResolvePath(JMap(input_data), SplitDots(rule.source))
         IN  IF source_value # JNull
             THEN [has |-> TRUE,
                   v |-> IF DictGet(rule, "transform", "") = "string"
                         THEN ToStr(source_value)
                         ELSE IF DictGet(rule, "transform", "") = "int"
                         THEN ToInt(source_value)
                         ELSE source_value]
             ELSE IF "default" \in DOMAIN rule
             THEN [has |-> TRUE, v |-> rule.default]
             ELSE [has |-> TRUE, v |-> JNull]
    ELSE IF "default" \in DOMAIN rule
    THEN [has |-> TRUE, v |-> rule.default]
    ELSE [has |-> FALSE, v |-> JNull]

\* lines 209-237 for one rule: whether the key gets an entry, and its value
RuleEntry(input_data, rule) ==
    IF "source" \in DOMAIN rule
    THEN LET source_value == ResolvePath(JMap(input_data), SplitDots(rule.source))
         IN  IF source_value # JNull
             THEN [has |-> TRUE,
                   v |-> IF DictGet(rule, "transform", "") = "string"
                         THEN ToStr(source_value)
                         ELSE IF DictGet(rule, "transform", "") = "int"
                         THEN ToInt(source_value)
                         ELSE source_value]
             ELSE IF "default" \in DOMAIN rule
             THEN [has |-> TRUE, v |-> rule.default]
             ELSE [has |-> FALSE, v |-> JNull]
    ELSE IF "default" \in DOMAIN rule
    THEN [has |-> TRUE, v |-> rule.default]
    ELSE [has |-> FALSE, v |-> JNull]

\* lines 203-204 returning nothing of the payload
NoRulesContext_dropped(input_data) == [k \in {} |-> JNull]

\* lines 203-204: with no rules the input dict itself is returned
NoRulesContext(input_data) == input_data

extract_context(input_data, context_rules) ==
    IF context_rules = NoRules THEN NoRulesContext(input_data)
    ELSE [key \in {k \in DOMAIN context_rules :
                      RuleEntry(input_data, context_rules[k]).has}
            |-> RuleEntry(input_data, context_rules[key]).v]

\* a call of _extract_context as its caller sees it: the returned map, or the
\* exception that leaves the function
ExtractOutcome(input_data, context_rules) ==
    LET context == extract_context(input_data, context_rules)
    IN  IF context_rules # NoRules /\ \E k \in DOMAIN context : context[k].t = "raise"
        THEN [ok |-> FALSE, exc |-> "OverflowError"]
        ELSE [ok |-> TRUE, context |-> context]

\* ---- ActionService.trigger_action --------------------------------------
\* the not-found failure carries its text under another key
NotFoundResult_output == [success |-> FALSE, output |-> "action not found"]

\* line 160
NotFoundResult == [success |-> FALSE, error |-> "action not found"]

\* line 163
DisabledResult == [success |-> FALSE, error |-> "action is disabled"]

\* line 174
TaskMissingResult == [success |-> FALSE, error |-> "related task not found"]

\* the enabled flag is not looked at
ActionUsable_always(action) == TRUE

\* `if not action.is_enabled` (line 162), negated
ActionUsable(action) == action.is_enabled

\* a lookup that found nothing is taken for a task
TaskMissing_never(tid) == FALSE

\* `if not task` (line 173) after db.get(Task, action.task_id)
TaskMissing(tid) == tid \notin DOMAIN tasks

\* `if action.task_id` (line 170)
HasTaskRef(action) == action.task_id # NoId

\* lines 157-171, up to the suspension in db.get(Task, ...)
TA_Begin(s, aid, payload) ==
    /\ FreeSlot(s)
    /\ LET base == [IdleSlot EXCEPT !.kind = "trigger_action", !.actionId = aid,
                                    !.payload = payload]
       IN  slots' = [slots EXCEPT ![s] =
             IF aid \notin DOMAIN actions
             THEN [base EXCEPT !.pc = "done", !.ret = NotFoundResult]
             ELSE IF ~ActionUsable(actions[aid])
             THEN [base EXCEPT !.pc = "done", !.ret = DisabledResult]
             ELSE IF ~HasTaskRef(actions[aid])
             THEN [base EXCEPT !.pc = "done", !.ret = TaskMissingResult,
                               !.ctx = extract_context(payload,
                                                       actions[aid].context_rules)]
             ELSE [base EXCEPT !.pc = "ta_get_task",
                               !.ctx = extract_context(payload,
                                                       actions[aid].context_rules)]]
    /\ UNCHANGED <<executions, statusLog, actions, tasks, invocation, discord_configs>>

\* lines 171-178: the Task lookup returns; the stamp is committed
TA_GetTask(s) ==
    /\ slots[s].kind = "trigger_action"
    /\ slots[s].pc = "ta_get_task"
    /\ LET aid == slots[s].actionId
           tid == actions[aid].task_id
       IN  IF TaskMissing(tid)
           THEN /\ slots' = [slots EXCEPT ![s].pc = "done",
                                          ![s].ret = TaskMissingResult]
                /\ UNCHANGED <<actions>>
           ELSE /\ actions' = [actions EXCEPT ![aid].last_triggered_at = Now(@)]
                            /\ slots' = [slots EXCEPT ![s].pc = "ta_dispatch", ![s].tmpl = tid]
    /\ UNCHANGED <<executions, statusLog, tasks, invocation, discord_configs>>

\* ---- TaskService.create_task (called at line 181) ----------------------
\* the task row is created pending before anything else happens
CT_Create(s) ==
    /\ slots[s].kind = "trigger_action"
    /\ slots[s].pc = "ta_dispatch"
    /\ tasks' = Append(tasks,
                       [ParentTask EXCEPT !.context = slots[s].ctx,
                                          !.status = "pending",
                                          !.parent_id = slots[s].tmpl])
    /\ slots' = [slots EXCEPT ![s].pc = "invoke", ![s].taskId = Len(tasks')]
    /\ UNCHANGED <<executions, statusLog, actions, invocation, discord_configs>>

\* pending -> processing at dispatch start, then the executor is called
CT_Invoke(s) ==
    /\ slots[s].kind = "trigger_action"
    /\ slots[s].pc = "invoke"
    /\ tasks' = [tasks EXCEPT ![slots[s].taskId].status = "processing"]
    /\ slots' = [slots EXCEPT ![s].pc = "agent_wait", ![s].invoked = TRUE]
    /\ UNCHANGED <<executions, statusLog, actions, invocation, discord_configs>>

\* processing -> completed / failed, and the combined result map
CT_Finish(s, o) ==
    /\ slots[s].kind = "trigger_action"
    /\ slots[s].pc = "agent_wait"
    /\ LET id == slots[s].taskId
           ok == o.exc = NoneStr /\ o.res.success
           text == IF o.exc # NoneStr THEN o.exc ELSE o.res.output
       IN  /\ tasks' = [tasks EXCEPT
                          ![id].status = IF ok THEN "completed" ELSE "failed",
                          ![id].result = IF ok THEN text ELSE @,
                          ![id].error = IF ok THEN @ ELSE text,
                          ![id].completed_at = Now(@)]
           /\ slots' = [slots EXCEPT
                          ![s].pc = "done", ![s].res = o.res, ![s].exc = o.exc,
                          ![s].ret = [task_id |-> id, success |-> ok, output |-> text]]
    /\ UNCHANGED <<executions, statusLog, actions, invocation, discord_configs>>

\* ---- DiscordConfigService.delete_discord_config -------------------------
\* the call returning True with the row left in the table
DeleteRow_kept(configs, config_id) == configs

\* lines 176-177: the row is deleted and the deletion committed
DeleteRow(configs, config_id) ==
    [i \in DOMAIN configs \ {config_id} |-> configs[i]]

\* lines 171-179: False without the row, else the row is removed
DeleteDiscordConfig(s, config_id) ==
    /\ FreeSlot(s)
    /\ discord_configs' = IF config_id \in DOMAIN discord_configs
                          THEN DeleteRow(discord_configs, config_id)
                          ELSE discord_configs
    /\ slots' = [slots EXCEPT ![s] =
                    [IdleSlot EXCEPT
                        !.kind = "delete_discord_config", !.pc = "done",
                        !.configId = config_id,
                        !.ret = [deleted |-> config_id \in DOMAIN discord_configs]]]
    /\ UNCHANGED <<executions, statusLog, actions, tasks, invocation>>

\* ---- disabling an Action ------------------------------------------------
\* the operation behind PUT /actions/{id}/disable: the enabled flag of the
\* row is cleared and committed
DisableAction(s, aid) ==
    /\ FreeSlot(s)
    /\ aid \in DOMAIN actions
    /\ actions' = [actions EXCEPT ![aid].is_enabled = FALSE]
    /\ slots' = [slots EXCEPT ![s] =
                    [IdleSlot EXCEPT !.kind = "disable_action", !.pc = "done",
                                     !.actionId = aid]]
    /\ UNCHANGED <<executions, statusLog, tasks, invocation, discord_configs>>

\* ---- specification -----------------------------------------------------
Init ==
    /\ executions = <<>>
    /\ statusLog = <<>>
    /\ actions = InitActions
    /\ tasks = <<ParentTask>>
    /\ slots = [s \in Slots |-> IdleSlot]
    /\ discord_configs = InitDiscordConfigs
    /\ invocation = NoCall

Next ==
    \/ \E s \in Slots, tid \in TemplateIds, ctx \in ApiContexts :
          CreateTaskExecution(s, tid, ctx)
    \/ \E s \in Slots, id \in DOMAIN executions, call \in UpdateCalls :
          UpdateTaskExecution(s, id, call)
    \/ \E s \in Slots, tid \in TemplateIds, ctx \in ApiContexts : ET_Begin(s, tid, ctx)
    \/ \E s \in Slots : ET_Invoke(s)
    \/ \E s \in Slots, o \in Outcomes : ET_Finish(s, o)
    \/ \E s \in Slots, aid \in ActionIds, p \in Payloads : TA_Begin(s, aid, p)
    \/ \E s \in Slots : TA_GetTask(s)
    \/ \E s \in Slots, aid \in ActionIds : DisableAction(s, aid)
    \/ \E s \in Slots : CT_Create(s)
    \/ \E s \in Slots : CT_Invoke(s)
    \/ \E s \in Slots, o \in Outcomes : CT_Finish(s, o)
    \/ \E s \in Slots, e \in Emojis, m \in Messages, u \in Users : RA_Begin(s, e, m, u)
    \/ \E s \in Slots : RA_GetAction(s)
    \/ \E s \in Slots : RA_Placeholder(s)
    \/ \E s \in Slots : RA_GetTemplate(s)
    \/ \E s \in Slots : RA_Create(s)
    \/ \E s \in Slots : RA_Invoke(s)
    \/ \E s \in Slots, o \in Outcomes : RA_Finish(s, o)
    \/ \E s \in Slots : RA_Apology(s, TRUE)

Spec == Init /\ [][Next]_vars

\* the same program with trigger configs being deleted
ConfigIds == 1 .. 5

NextConfigs ==
    \/ Next
    \/ \E s \in Slots, id \in ConfigIds : DeleteDiscordConfig(s, id)

SpecConfigs == Init /\ [][NextConfigs]_vars

\* the same program when the calls the reaction handler awaits (database
\* lookups, chat sends) may raise
NextFaults ==
    \/ Next
    \/ \E s \in Slots, m \in Messages, u \in Users : RA_LookupRaises(s, m, u)
    \/ \E s \in Slots : RA_Raises(s)
    \/ \E s \in Slots : RA_Apology(s, FALSE)

SpecFaults == Init /\ [][NextFaults]_vars

\* ---- _extract_context called on its own ---------------------------------
\* values a payload holds under its key "data"
ExtractValues ==
    {JNull, JInt(7), JText("input"), JDigits(42), JFloat(3), JInf, JBool(TRUE),
     JList,
     JMap([id |-> JInt(7)]), JMap([id |-> JNull]), JMap([id |-> JText("input")]),
     JMap([id |-> JMap([deep |-> JDigits(42)])]), JMap([name |-> JInt(7)])}

EmptyPayload == [k \in {} |-> JNull]

ExtractPayloads == {[data |-> v] : v \in ExtractValues} \cup {EmptyPayload}

\* dotted sources as their tokens: "data", "data.id", "data.id.deep", "other"
ExtractSources ==
    {<<"data">>, <<"data", ".", "id">>, <<"data", ".", "id", ".", "deep">>,
     <<"other">>}

\* a rule dict with the keys that are given
MakeRule(sources, transforms, defaults) ==
    [k \in (IF sources = {} THEN {} ELSE {"source"})
            \cup (IF transforms = {} THEN {} ELSE {"transform"})
            \cup (IF defaults = {} THEN {} ELSE {"default"})
        |-> IF k = "source" THEN CHOOSE x \in sources : TRUE
            ELSE IF k = "transform" THEN CHOOSE x \in transforms : TRUE
            ELSE CHOOSE x \in defaults : TRUE]

\* every rule with or without a source, a transform, a default
ExtractRules ==
    {MakeRule(src, tr, df) :
        src \in {{}} \cup {{x} : x \in ExtractSources},
        tr \in {{}, {"string"}, {"int"}},
        df \in {{}, {JText("dflt")}, {JNull}}}

\* None / {}, every ruleset of one rule, and rulesets of two rules
ExtractRulesets ==
    {NoRules}
        \cup {[key |-> r] : r \in ExtractRules}
        \cup {[key |-> r, also |-> MakeRule({<<"data">>}, {}, {})] :
                 r \in {MakeRule({<<"other">>}, {}, {}),
                        MakeRule({<<"data", ".", "id">>}, {"int"}, {})}}

InitExtract ==
    /\ executions = <<>>
    /\ statusLog = <<>>
    /\ actions = InitActions
    /\ tasks = <<ParentTask>>
    /\ slots = [s \in Slots |-> IdleSlot]
    /\ discord_configs = InitDiscordConfigs
    /\ invocation \in
          {[fn |-> "_extract_context", pc |-> "call", input_data |-> p,
            context_rules |-> r, ret |-> NoDict] :
              p \in ExtractPayloads, r \in ExtractRulesets}

ExtractContext ==
    /\ invocation.fn = "_extract_context"
    /\ invocation.pc = "call"
    /\ invocation' = [invocation EXCEPT
                         !.pc = "return",
                         !.ret = ExtractOutcome(invocation.input_data,
                                                invocation.context_rules)]
    /\ UNCHANGED <<executions, statusLog, actions, tasks, slots,
                 discord_configs>>

NextExtract == ExtractContext

SpecExtract == InitExtract /\ [][NextExtract]_vars

\* ---- TaskExecutor.execute_task called on its own -------------------------
\* the marker the executor looks for in the agent's output
Marker == "EXTENSION_OUTPUT:"

\* a text is the sequence of its pieces: a whitespace character, an ordinary
\* character, the text of a JSON object, the marker
OutputTokens == {"sp", "a", "obj", Marker}

OutputTexts == UNION {[1 .. n -> OutputTokens] : n \in 0 .. MaxOutput}

\* the dict that the JSON object text "obj" stands for
ObjValue == [result |-> JText("success")]

\* line 319: extensions_output = {}
EmptyDict == [k \in {} |-> JNull]

\* line 322: "EXTENSION_OUTPUT:" in output
HasMarker(text) == \E i \in 1 .. Len(text) : text[i] = Marker

\* str.split(marker): the pieces between the occurrences of the marker
RECURSIVE Split(_)
Split(text) ==
    IF ~HasMarker(text) THEN <<text>>
    ELSE LET i == CHOOSE j \in 1 .. Len(text) :
                     /\ text[j] = Marker
                     /\ \A k \in 1 .. j - 1 : text[k] # Marker
         IN  <<SubSeq(text, 1, i - 1)>> \o Split(SubSeq(text, i + 1, Len(text)))

\* str.strip(): whitespace removed at both ends
RECURSIVE Strip(_)
Strip(text) ==
    IF text = <<>> THEN text
    ELSE IF Head(text) = "sp" THEN Strip(Tail(text))
    ELSE IF text[Len(text)] = "sp" THEN Strip(SubSeq(text, 1, Len(text) - 1))
    ELSE text

\* json.loads raising on every text
JsonLoads_raises(text) == [ok |-> FALSE, exc |-> "JSONDecodeError"]

\* json.loads: one JSON value and nothing else parses; anything else raises
JsonLoads(text) ==
    IF text = <<"obj">> THEN [ok |-> TRUE, v |-> ObjValue]
    ELSE [ok |-> FALSE, exc |-> "JSONDecodeError"]

\* the output without a marker returned with its surrounding whitespace
\* removed
Unmarked_trimmed(output) ==
    [output |-> Strip(output), extensions_output |-> EmptyDict]

\* lines 319, 322 false: output and extensions_output stay as they are
Unmarked(output) == [output |-> output, extensions_output |-> EmptyDict]

\* lines 318-330: the try block; any exception inside it is swallowed, and
\* output is reassigned only after json.loads has returned
ParseExtensions(output) ==
    IF ~HasMarker(output) THEN Unmarked(output)
    ELSE LET parts == Split(output)
             main_output == Strip(parts[1])
             loaded == JsonLoads(Strip(parts[2]))
         IN  IF loaded.ok
             THEN [output |-> main_output, extensions_output |-> loaded.v]
             ELSE [output |-> output, extensions_output |-> EmptyDict]

\* what cli.run_with_text returns: (True, cleaned stdout, None) or
\* (False, "", error text)
RunOutcomes ==
    {[success |-> TRUE, output |-> o, error |-> NoneStr] : o \in OutputTexts}
        \cup {[success |-> FALSE, output |-> <<>>, error |-> e] :
                 e \in {<<"a">>, <<"sp", "a", Marker, "obj">>}}

\* the context argument: None, an empty dict or a dict
ExecContexts == {NoDict, EmptyDict, [data |-> JText("input")]}

\* the prompt argument
ExecPrompt == "summarize"

\* lines 300-304: the text handed to the invoker; None and {} add nothing
EnhancedPrompt(prompt, context) ==
    IF context = NoDict \/ context = EmptyDict THEN [prompts |-> prompt]
    ELSE [contexts |-> context, prompts |-> prompt]

\* the failure dict with its output run through the marker parsing
FailureResult_parsed(run, context) ==
    [success |-> FALSE, output |-> ParseExtensions(run.error).output,
     context |-> context]

\* lines 309-316
FailureResult(run, context) ==
    [success |-> FALSE, output |-> run.error, context |-> context]

\* lines 309-338: the returned dict without its id and timestamp
TaskExecutorResult(run, context) ==
    IF ~run.success
    THEN FailureResult(run, context)
    ELSE LET parsed == ParseExtensions(run.output)
         IN  [success |-> TRUE, output |-> parsed.output, context |-> context,
              extensions_output |-> parsed.extensions_output]

InitExecutor ==
    /\ executions = <<>>
    /\ statusLog = <<>>
    /\ actions = InitActions
    /\ tasks = <<ParentTask>>
    /\ slots = [s \in Slots |-> IdleSlot]
    /\ discord_configs = InitDiscordConfigs
    /\ invocation \in
          {[fn |-> "execute_task", pc |-> "call", context |-> c,
            sent |-> NoDict, run |-> NoDict, ret |-> NoDict] :
              c \in ExecContexts}

\* line 307: the awaited cli.run_with_text returns
EX_RunReturns(o) ==
    /\ invocation.fn = "execute_task"
    /\ invocation.pc = "call"
    /\ invocation' = [invocation EXCEPT
                         !.pc = "ran",
                         !.sent = EnhancedPrompt(ExecPrompt, invocation.context),
                         !.run = o]
    /\ UNCHANGED <<executions, statusLog, actions, tasks, slots,
                 discord_configs>>

\* lines 309-338
EX_Return ==
    /\ invocation.fn = "execute_task"
    /\ invocation.pc = "ran"
    /\ invocation' = [invocation EXCEPT
                         !.pc = "return",
                         !.ret = TaskExecutorResult(invocation.run,
                                                   invocation.context)]
    /\ UNCHANGED <<executions, statusLog, actions, tasks, slots,
                 discord_configs>>

NextExecutor ==
    \/ \E o \in RunOutcomes : EX_RunReturns(o)
    \/ EX_Return

SpecExecutor == InitExecutor /\ [][NextExecutor]_vars

\* ---- goose/cli.py: output cleaning ---------------------------------------
\* a text is the sequence of its characters: ESC, "[", a digit, "m", a
\* capital letter, a newline -- and, each standing for its whole phrase,
\* "starting session", "logging to", "working directory"
Esc == "esc"

Newline == "nl"

\* [@-Z\\-_]: of the characters here, the capital letter
FeBytes == {"A"}

\* [0-?]: of the characters here, the digit
ParamBytes == {"0"}

\* [@-~]: of the characters here, "[", "m" and the capital letter
FinalBytes == {"[", "m", "A"}

\* the number of characters from position i on that are all in class
RunLength(text, i, class) ==
    CHOOSE k \in 0 .. Len(text) :
        /\ i + k - 1 <= Len(text)
        /\ \A j \in i .. i + k - 1 : text[j] \in class
        /\ i + k <= Len(text) => text[i + k] \notin class

\* line 22: the length of the match of ansi_escape1 at the head of text,
\* 0 when there is none
Escape1Match(text) ==
    IF Len(text) < 2 \/ Head(text) # Esc THEN 0
    ELSE IF text[2] \in FeBytes THEN 2
    ELSE IF text[2] # "[" THEN 0
    ELSE LET k == RunLength(text, 3, ParamBytes)
         IN  IF 3 + k <= Len(text) /\ text[3 + k] \in FinalBytes
             THEN 3 + k ELSE 0

\* line 24: the same for ansi_escape2, "[" with up to three digits and "m"
Escape2Match(text) ==
    IF text = <<>> \/ Head(text) # "[" THEN 0
    ELSE LET k == RunLength(text, 2, ParamBytes)
         IN  IF k <= 3 /\ 2 + k <= Len(text) /\ text[2 + k] = "m"
             THEN 2 + k ELSE 0

\* pattern.sub(""): the matches found in one pass from the left are removed
RECURSIVE SubEscape1(_)
SubEscape1(text) ==
    IF text = <<>> THEN <<>>
    ELSE LET n == Escape1Match(text)
         IN  IF n > 0 THEN SubEscape1(SubSeq(text, n + 1, Len(text)))
             ELSE <<Head(text)>> \o SubEscape1(Tail(text))

RECURSIVE SubEscape2(_)
SubEscape2(text) ==
    IF text = <<>> THEN <<>>
    ELSE LET n == Escape2Match(text)
         IN  IF n > 0 THEN SubEscape2(SubSeq(text, n + 1, Len(text)))
             ELSE <<Head(text)>> \o SubEscape2(Tail(text))

\* lines 12-29
strip_ansi_codes(text) == SubEscape2(SubEscape1(text))

\* the positions of the newlines of text
NewlinesOf(text) == {i \in 1 .. Len(text) : text[i] = Newline}

\* line 35: the length of the match of the banner pattern at a line start:
\* three whole lines holding, in this order, the three phrases
BannerMatch(text) ==
    LET nls == NewlinesOf(text)
    IN  IF Cardinality(nls) < 3 THEN 0
        ELSE LET n1 == CHOOSE i \in nls : \A j \in nls : i <= j
                 n2 == CHOOSE i \in nls \ {n1} : \A j \in nls \ {n1} : i <= j
                 n3 == CHOOSE i \in nls \ {n1, n2} :
                           \A j \in nls \ {n1, n2} : i <= j
             IN  IF /\ \E i \in 1 .. n1 - 1 : text[i] = "starting session"
                    /\ \E i \in n1 + 1 .. n2 - 1 : text[i] = "logging to"
                    /\ \E i \in n2 + 1 .. n3 - 1 : text[i] = "working directory"
                 THEN n3 ELSE 0

\* lines 32-37: re.sub with MULTILINE, tried at every line start from the
\* left
RECURSIVE strip_loggin_rows(_)
strip_loggin_rows(text) ==
    IF text = <<>> THEN <<>>
    ELSE LET n == BannerMatch(text)
             nls == NewlinesOf(text)
         IN  IF n > 0 THEN strip_loggin_rows(SubSeq(text, n + 1, Len(text)))
             ELSE IF nls = {} THEN text
             ELSE LET n1 == CHOOSE i \in nls : \A j \in nls : i <= j
                  IN  SubSeq(text, 1, n1)
                          \o strip_loggin_rows(SubSeq(text, n1 + 1, Len(text)))

\* lines 60-61
CleanOutput(text) == strip_loggin_rows(strip_ansi_codes(text))

\* ---- goose/cli.py: run_command called on its own --------------------------
\* a byte that no UTF-8 text holds; every other piece stands for a character
\* and for its encoding alike
BadByte == "xff"

\* the third component when it is None
NoText == <<NoneStr>>

\* str(e) of a caught exception
ExcText(e) == <<e>>

\* bytes.decode(): the text of the bytes, or UnicodeDecodeError
Decode(bytes) ==
    IF \E i \in 1 .. Len(bytes) : bytes[i] = BadByte
    THEN [ok |-> FALSE, exc |-> "UnicodeDecodeError"]
    ELSE [ok |-> TRUE, text |-> bytes]

\* what create_subprocess_exec may raise
SpawnErrors == {"FileNotFoundError", "PermissionError"}

ExitCodes == {0, 1, 2}

\* what the process wrote to its stdout
StdoutBytes ==
    {<<>>, <<"A">>, <<"A", Newline>>,
     <<Esc, "[", "0", "m", "A">>, <<"[", "0", "m", "A">>, <<"[", "[", "m", "m">>,
     <<"starting session", Newline, "logging to", Newline,
       "working directory", Newline, "A", Newline>>,
     <<"A", Newline, "starting session", Newline>>,
     <<BadByte>>, <<"A", BadByte, Newline>>}

\* what it wrote to its stderr
StderrBytes ==
    {<<>>, <<"A">>, <<Esc, "[", "0", "m", "A", Newline>>, <<"A", BadByte>>}

\* lines 50-64 once the process has exited: the returned triple; an
\* exception raised by decode() inside the try is caught at line 63
RunCommandResult(returncode, stdout, stderr) ==
    IF returncode # 0
    THEN LET err == Decode(stderr)
         IN  IF err.ok
             THEN [success |-> FALSE, output |-> <<>>, error |-> err.text]
             ELSE [success |-> FALSE, output |-> <<>>,
                   error |-> ExcText(err.exc)]
    ELSE LET out == Decode(stdout)
         IN  IF out.ok
             THEN [success |-> TRUE, output |-> CleanOutput(out.text),
                   error |-> NoText]
             ELSE [success |-> FALSE, output |-> <<>>,
                   error |-> ExcText(out.exc)]

InitRunCommand ==
    /\ executions = <<>>
    /\ statusLog = <<>>
    /\ actions = InitActions
    /\ tasks = <<ParentTask>>
    /\ slots = [s \in Slots |-> IdleSlot]
    /\ discord_configs = InitDiscordConfigs
    /\ invocation = [fn |-> "run_command", pc |-> "call", spawned |-> FALSE,
                     returncode |-> 0, stdout |-> <<>>, stderr |-> <<>>,
                     exc |-> NoneStr, ret |-> NoDict]

\* lines 51-53: the process is started
RC_Spawned ==
    /\ invocation.fn = "run_command"
    /\ invocation.pc = "call"
    /\ invocation' = [invocation EXCEPT !.pc = "communicate", !.spawned = TRUE]
    /\ UNCHANGED <<executions, statusLog, actions, tasks, slots,
                 discord_configs>>

\* lines 51-53 raise; lines 63-64 return the exception's text
RC_SpawnFails(e) ==
    /\ invocation.fn = "run_command"
    /\ invocation.pc = "call"
    /\ invocation' = [invocation EXCEPT
                         !.pc = "return",
                         !.exc = e,
                         !.ret = [success |-> FALSE, output |-> <<>>,
                                  error |-> ExcText(e)]]
    /\ UNCHANGED <<executions, statusLog, actions, tasks, slots,
                 discord_configs>>

\* lines 55-62: the process exits and the triple is returned
RC_Exit(returncode, stdout, stderr) ==
    /\ invocation.fn = "run_command"
    /\ invocation.pc = "communicate"
    /\ invocation' = [invocation EXCEPT
                         !.pc = "return",
                         !.returncode = returncode,
                         !.stdout = stdout,
                         !.stderr = stderr,
                         !.ret = RunCommandResult(returncode, stdout, stderr)]
    /\ UNCHANGED <<executions, statusLog, actions, tasks, slots,
                 discord_configs>>

NextRunCommand ==
    \/ RC_Spawned
    \/ \E e \in SpawnErrors : RC_SpawnFails(e)
    \/ \E c \in ExitCodes, out \in StdoutBytes, err \in StderrBytes :
          RC_Exit(c, out, err)

SpecRunCommand == InitRunCommand /\ [][NextRunCommand]_vars

\* ---- goose/cli.py: the cleaning applied to its own result ----------------
\* texts of the characters that escape sequences are made of
EscapeTexts ==
    UNION {[1 .. n -> {Esc, "[", "0", "m", "A"}] : n \in 0 .. MaxText}

\* a text of whole lines, each one piece and its newline
LinesText(lines) ==
    [i \in 1 .. 2 * Len(lines) |->
        IF i % 2 = 1 THEN lines[(i + 1) \div 2] ELSE Newline]

\* texts of lines that hold a banner phrase or something else
BannerTexts ==
    {LinesText(ls) :
        ls \in UNION {[1 .. n -> {"starting session", "logging to",
                                  "working directory", "A"}] :
                         n \in 0 .. MaxLines}}

CleanTexts == EscapeTexts \cup BannerTexts

InitClean ==
    /\ executions = <<>>
    /\ statusLog = <<>>
    /\ actions = InitActions
    /\ tasks = <<ParentTask>>
    /\ slots = [s \in Slots |-> IdleSlot]
    /\ discord_configs = InitDiscordConfigs
    /\ invocation \in
          {[fn |-> "clean", pc |-> "call", text |-> x, once |-> <<>>,
            twice |-> <<>>] : x \in CleanTexts}

\* lines 60-61 applied to a text
CL_Clean ==
    /\ invocation.fn = "clean"
    /\ invocation.pc = "call"
    /\ invocation' = [invocation EXCEPT
                         !.pc = "once",
                         !.once = CleanOutput(invocation.text)]
    /\ UNCHANGED <<executions, statusLog, actions, tasks, slots,
                 discord_configs>>

\* lines 60-61 applied to the text they returned
CL_CleanAgain ==
    /\ invocation.fn = "clean"
    /\ invocation.pc = "once"
    /\ invocation' = [invocation EXCEPT
                         !.pc = "twice",
                         !.twice = CleanOutput(invocation.once)]
    /\ UNCHANGED <<executions, statusLog, actions, tasks, slots,
                 discord_configs>>

NextClean == CL_Clean \/ CL_CleanAgain

SpecClean == InitClean /\ [][NextClean]_vars

\* ---- DiscordService._split_message ---------------------------------------
\* message[i : j] with its last character left out
Slice_exclusive(message, i, j) ==
    SubSeq(message, i + 1, (IF j < Len(message) THEN j ELSE Len(message)) - 1)

\* message[i : j] for 0 <= i <= j: the end is clamped to the length
Slice(message, i, j) ==
    SubSeq(message, i + 1, IF j < Len(message) THEN j ELSE Len(message))

\* the chunks for range(i, len(message), chunk_size)
RECURSIVE ChunksFrom(_, _, _)
ChunksFrom(message, i, chunk_size) ==
    IF i >= Len(message) THEN <<>>
    ELSE <<Slice(message, i, i + chunk_size)>>
             \o ChunksFrom(message, i + chunk_size, chunk_size)

\* line 233
split_message(message, chunk_size) == ChunksFrom(message, 0, chunk_size)

\* the messages and chunk sizes it is called with
SplitMessages == UNION {[1 .. n -> {"a", "b"}] : n \in 0 .. MaxMessage}

ChunkSizes == 1 .. MaxChunk

InitSplit ==
    /\ executions = <<>>
    /\ statusLog = <<>>
    /\ actions = InitActions
    /\ tasks = <<ParentTask>>
    /\ slots = [s \in Slots |-> IdleSlot]
    /\ discord_configs = InitDiscordConfigs
    /\ invocation \in
          {[fn |-> "_split_message", pc |-> "call", message |-> m,
            chunk_size |-> c, ret |-> <<>>] :
              m \in SplitMessages, c \in ChunkSizes}

SplitMessage ==
    /\ invocation.fn = "_split_message"
    /\ invocation.pc = "call"
    /\ invocation' = [invocation EXCEPT
                         !.pc = "return",
                         !.ret = split_message(invocation.message,
                                               invocation.chunk_size)]
    /\ UNCHANGED <<executions, statusLog, actions, tasks, slots,
                 discord_configs>>

NextSplit == SplitMessage

SpecSplit == InitSplit /\ [][NextSplit]_vars

\* ---- DiscordService._send_response called on its own ----------------------
\* line 181: the longest message Discord takes
DiscordLimit == 2000

\* line 182: the chunk size, leaving a margin
ChunkSize == 1900

\* a text of n characters, each told apart by the part it belongs to and
\* its place in it
TextOf(part, n) == [i \in 1 .. n |-> <<part, i>>]

\* user.mention, e.g. "<@42>"
Mention == TextOf("mention", 5)

\* line 178: f"{user.mention} 処理が完了しました。\n\n{output}\n\n"
FormatResponse(output) ==
    Mention \o TextOf("completed", 13) \o output \o TextOf("newlines", 2)

\* lines 191, 201: f"{user.mention} DMに結果を送信しました。"
DmNotice == Mention \o TextOf("dm sent", 14)

\* the content of the placeholder before anything is relayed
ProcessingText == TextOf("processing", 10)

\* agent outputs by length: responses of no more than the limit (the limit
\* itself included), of two chunks, three and four
OutputLengths == {0, 7, 1980, 1981, 2480, 3780, 3781, 5681}

\* the response formats of a trigger config, and one that is none of them
ResponseFormats == {"reply", "dm", "channel", "thread"}

\* a long response is cut at the platform limit, without the margin
ResponseChunks_limit(response) ==
    IF Len(response) > DiscordLimit THEN split_message(response, DiscordLimit)
    ELSE <<response>>

\* the response sent whole whatever its length
ResponseChunks_whole(response) == <<response>>

\* lines 181-182: what goes out, in pieces or whole
ResponseChunks(response) ==
    IF Len(response) > DiscordLimit THEN split_message(response, ChunkSize)
    ELSE <<response>>

InitSend ==
    /\ executions = <<>>
    /\ statusLog = <<>>
    /\ actions = InitActions
    /\ tasks = <<ParentTask>>
    /\ slots = [s \in Slots |-> IdleSlot]
    /\ discord_configs = InitDiscordConfigs
    /\ invocation \in
          {[fn |-> "_send_response", pc |-> "call",
            output |-> TextOf("output", n), response_format |-> f,
            response |-> <<>>, chunks |-> <<>>, next |-> 1,
            channel |-> <<>>, dm |-> <<>>,
            processing_msg |-> [content |-> ProcessingText,
                                deleted |-> FALSE]] :
              n \in OutputLengths, f \in ResponseFormats}

\* lines 178-184, 196: the response is formatted and, when too long, split;
\* the branch for the response format is entered
SR_Format ==
    /\ invocation.fn = "_send_response"
    /\ invocation.pc = "call"
    /\ LET response == FormatResponse(invocation.output)
           f == invocation.response_format
       IN  invocation' = [invocation EXCEPT
               !.response = response,
               !.chunks = ResponseChunks(response),
               !.pc = IF f = "reply" THEN "edit_first"
                      ELSE IF f = "dm" THEN "user_send"
                      ELSE IF f = "channel" THEN "channel_send"
                      ELSE "return"]
    /\ UNCHANGED <<executions, statusLog, actions, tasks, slots,
                 discord_configs>>

\* the placeholder is edited to the last piece
EditedContent_last(chunks) == chunks[Len(chunks)]

\* `content=chunks[0]` (line 185), `content=response` (line 198)
EditedContent(chunks) == chunks[1]

\* lines 185, 198: reply mode edits the placeholder to the first piece
SR_EditFirst ==
    /\ invocation.fn = "_send_response"
    /\ invocation.pc = "edit_first"
    /\ invocation' = [invocation EXCEPT
           !.processing_msg.content = EditedContent(invocation.chunks),
           !.next = 2,
           !.pc = IF Len(invocation.chunks) > 1 THEN "reply_send"
                  ELSE "return"]
    /\ UNCHANGED <<executions, statusLog, actions, tasks, slots,
                 discord_configs>>

\* lines 186-187, 193-194, 203: one message.channel.send
SR_ChannelSend ==
    /\ invocation.fn = "_send_response"
    /\ invocation.pc \in {"reply_send", "channel_send"}
    /\ invocation' = [invocation EXCEPT
           !.channel = Append(@, invocation.chunks[invocation.next]),
           !.next = @ + 1,
           !.pc = IF invocation.next < Len(invocation.chunks) THEN @
                  ELSE IF @ = "channel_send" THEN "delete"
                  ELSE "return"]
    /\ UNCHANGED <<executions, statusLog, actions, tasks, slots,
                 discord_configs>>

\* lines 189-190, 200: one user.send
SR_UserSend ==
    /\ invocation.fn = "_send_response"
    /\ invocation.pc = "user_send"
    /\ invocation' = [invocation EXCEPT
           !.dm = Append(@, invocation.chunks[invocation.next]),
           !.next = @ + 1,
           !.pc = IF invocation.next < Len(invocation.chunks) THEN @
                  ELSE "edit_notice"]
    /\ UNCHANGED <<executions, statusLog, actions, tasks, slots,
                 discord_configs>>

\* lines 191, 201: dm mode edits the placeholder to the notice
SR_EditNotice ==
    /\ invocation.fn = "_send_response"
    /\ invocation.pc = "edit_notice"
    /\ invocation' = [invocation EXCEPT
           !.processing_msg.content = DmNotice,
           !.pc = "return"]
    /\ UNCHANGED <<executions, statusLog, actions, tasks, slots,
                 discord_configs>>

\* lines 195, 204: channel mode deletes the placeholder
SR_Delete ==
    /\ invocation.fn = "_send_response"
    /\ invocation.pc = "delete"
    /\ invocation' = [invocation EXCEPT
           !.processing_msg.deleted = TRUE,
           !.pc = "return"]
    /\ UNCHANGED <<executions, statusLog, actions, tasks, slots,
                 discord_configs>>

NextSend ==
    \/ SR_Format
    \/ SR_EditFirst
    \/ SR_ChannelSend
    \/ SR_UserSend
    \/ SR_EditNotice
    \/ SR_Delete

SpecSend == InitSend /\ [][NextSend]_vars

\* run_command awaits process.communicate() with no timeout: an agent
\* process that never exits leaves its caller suspended for good
AgentHangs(s) ==
    /\ slots[s].pc = "agent_wait"
    /\ slots' = [slots EXCEPT ![s].pc = "agent_hung"]
    /\ UNCHANGED <<executions, statusLog, actions, tasks, invocation, discord_configs>>

NextHang ==
    \/ Next
    \/ \E s \in Slots : AgentHangs(s)

\* the event loop runs every coroutine that is ready, and resumes a
\* coroutine whose executor call is over
SpecHang ==
    /\ Init
    /\ [][NextHang]_vars
    /\ \A s \in Slots :
          /\ WF_vars(ET_Invoke(s))
          /\ WF_vars(\E o \in Outcomes : ET_Finish(s, o))

\* ---- properties --------------------------------------------------------
StatusRank(status) ==
    IF status = "pending" THEN 0 ELSE IF status = "processing" THEN 1 ELSE 2

\* the handler of slot s took its first step in this transition
Begins(s, kind) == slots[s].pc = "idle" /\ slots'[s].kind = kind

\* the diagnostic text of the failed agent run a frame resumed with
Diagnostic(f) == IF f.exc # NoneStr THEN f.exc ELSE f.res.output

AgentFailed(f) == f.exc # NoneStr \/ (f.res # NoDict /\ ~f.res.success)

AgentSucceeded(f) == f.exc = NoneStr /\ f.res # NoDict /\ f.res.success

\* the coroutine of slot s resumes from its executor call in this transition
Resumes(s, kind) ==
    slots[s].kind = kind /\ slots[s].pc = "agent_wait" /\ slots'[s].pc = "done"

\* sub occurs in log as a subsequence of adjacent-or-later entries, in order
RECURSIVE InOrder(_, _)
InOrder(log, sub) ==
    IF sub = <<>> THEN TRUE
    ELSE IF log = <<>> THEN FALSE
    ELSE IF Head(log) = Head(sub) THEN InOrder(Tail(log), Tail(sub))
    ELSE InOrder(Tail(log), sub)

\* C1: in every step, no TaskExecution's status moves backward along
\* pending -> processing -> {completed, failed}, and a record that is
\* completed or failed keeps its status, result, error and completed_at.
C1_ForwardOnly ==
    [][\A i \in DOMAIN executions :
          /\ StatusRank(executions'[i].status) >= StatusRank(executions[i].status)
          /\ executions[i].status \in {"completed", "failed"} =>
                /\ executions'[i].status = executions[i].status
                /\ executions'[i].result = executions[i].result
                /\ executions'[i].error = executions[i].error
                /\ executions'[i].completed_at = executions[i].completed_at]_vars

FindsTaskMissing(s) ==
    \/ /\ Begins(s, "trigger_action")
       /\ slots'[s].actionId \in DOMAIN actions
       /\ actions[slots'[s].actionId].is_enabled
       /\ actions[slots'[s].actionId].task_id = NoId
    \/ /\ slots[s].kind = "trigger_action"
       /\ slots[s].pc = "ta_get_task"
       /\ slots'[s].pc # "ta_get_task"
       /\ actions[slots[s].actionId].task_id \notin DOMAIN tasks

C5_CompletedIffSuccess ==
    [][\A s \in Slots :
          Resumes(s, "execute_task")
          => /\ executions'[slots[s].execId].status =
                    (IF AgentSucceeded(slots'[s]) THEN "completed" ELSE "failed")
             /\ slots'[s].ret.success =
                    (executions'[slots[s].execId].status = "completed")]_vars

C5_Witness ==
    /\ \E s \in Slots :
          /\ slots[s].kind = "execute_task"
          /\ slots[s].pc = "done"
          /\ AgentSucceeded(slots[s])
          /\ executions[slots[s].execId].status = "completed"
    /\ \E s \in Slots :
          /\ slots[s].kind = "execute_task"
          /\ slots[s].pc = "done"
          /\ AgentFailed(slots[s])
          /\ executions[slots[s].execId].status = "failed"

\* C6: when the reaction handler has ended after an agent run that returned
\* success = false or raised, the TaskExecution it created is failed and
\* its error is the agent's diagnostic text.
C6_ChatFailureRecorded ==
    \A s \in Slots :
        (/\ slots[s].kind = "reaction"
         /\ slots[s].pc = "done"
         /\ slots[s].execId # NoId
         /\ AgentFailed(slots[s]))
        => /\ executions[slots[s].execId].status = "failed"
           /\ executions[slots[s].execId].error = Diagnostic(slots[s])

\* C7: when execute_task resumes after an executor call that returned
\* success = false or raised, the stored record's result, empty before, is
\* still empty and its error is the executor's output or exception text.
C7_FailureKeepsResultEmpty ==
    [][\A s \in Slots :
          (/\ Resumes(s, "execute_task")
           /\ AgentFailed(slots'[s])
           /\ executions[slots[s].execId].result = NoneStr)
          => /\ executions'[slots[s].execId].result = NoneStr
             /\ executions'[slots[s].execId].error = Diagnostic(slots'[s])]_vars

\* C8: every TaskExecution whose status is completed or failed has a
\* completed_at.
C8_TerminalHasCompletedAt ==
    \A i \in DOMAIN executions :
        executions[i].status \in {"completed", "failed"} =>
            executions[i].completed_at # NoTime

\* a record that both writers made terminal: update_task_execution while
\* the agent ran, then execute_task when the agent returned
C8_Witness ==
    \E s \in Slots :
        /\ slots[s].kind = "execute_task"
        /\ slots[s].pc = "done"
        /\ slots[s].execId # NoId
        /\ statusLog[slots[s].execId] = <<"processing", "failed", "completed">>
        /\ executions[slots[s].execId].completed_at # NoTime

\* C9: whenever the agent has been invoked for a dispatch, on the
\* execute_task path and on the reaction path, the dispatch's TaskExecution
\* is already in the table, and it was stored with a non-terminal status.
C9_RecordBeforeAgent ==
    \A s \in Slots :
        (slots[s].invoked /\ slots[s].kind \in {"execute_task", "reaction"})
        => /\ slots[s].execId \in DOMAIN executions
           /\ Head(statusLog[slots[s].execId]) \in {"pending", "processing"}

\* an agent run is in flight on each of the two paths
C9_Witness ==
    /\ \E s \in Slots :
          slots[s].kind = "execute_task" /\ slots[s].pc = "agent_wait"
    /\ \E s \in Slots :
          slots[s].kind = "reaction" /\ slots[s].pc = "agent_wait"

\* C10: when the reaction handler has ended after a successful agent run,
\* the TaskExecution it created went through pending, then processing, then
\* completed, and its stored context holds the reacted message's serialized
\* form.
C10_ChatPendingProcessingCompleted ==
    \A s \in Slots :
        (/\ slots[s].kind = "reaction"
         /\ slots[s].pc = "done"
         /\ slots[s].execId # NoId
         /\ AgentSucceeded(slots[s]))
        => /\ InOrder(statusLog[slots[s].execId],
                      <<"pending", "processing", "completed">>)
           /\ \E i \in DOMAIN executions[slots[s].execId].context.messages :
                 executions[slots[s].execId].context.messages[i] =
                     message_to_dict(slots[s].msg)

\* what _send_response makes of the placeholder in each response mode
\* (bot.py lines 197-204)
RelayedPlaceholder(response_format) ==
    IF response_format = "reply" THEN "response"
    ELSE IF response_format = "dm" THEN "dm_notice"
    ELSE IF response_format = "channel" THEN "deleted"
    ELSE "processing"

\* C11: when the reaction handler has ended after a successful agent run,
\* the placeholder message has been edited or deleted as the trigger
\* config's response mode prescribes (the output was relayed to chat).
C11_RelayedPerMode ==
    \A s \in Slots :
        (/\ slots[s].kind = "reaction"
         /\ slots[s].pc = "done"
         /\ slots[s].execId # NoId
         /\ AgentSucceeded(slots[s]))
        => slots[s].ph = RelayedPlaceholder(slots[s].cfg.response_format)

\* C12: the record-creation step of the reaction handler is taken only for
\* an Action that is enabled at that moment, whatever DisableAction calls
\* are interleaved with the handler; and the Action that the linked-Action
\* lookup hands to the handler is enabled when the lookup returns.
C12_NoRecordForDisabled ==
    [][\A s \in Slots :
          /\ (/\ slots[s].kind = "reaction"
              /\ slots[s].pc = "ra_create"
              /\ slots'[s].pc = "invoke")
             => actions[slots[s].act.id].is_enabled
          /\ (/\ slots[s].kind = "reaction"
              /\ slots[s].pc = "ra_get_action"
              /\ slots'[s].pc = "ra_placeholder")
             => actions[slots'[s].act.id].is_enabled]_vars

\* C13: when the reaction handler has ended after an exception was raised
\* in one of its awaited calls (a lookup, the placeholder send, the record
\* creation, the agent call, the apology send), no exception has left
\* on_reaction_add and the apology message has been posted.
C13_ExceptionsContained ==
    \A s \in Slots :
        (/\ slots[s].kind = "reaction"
         /\ slots[s].pc = "done"
         /\ (slots[s].fault # NoneStr \/ slots[s].exc # NoneStr))
        => /\ ~slots[s].raised
           /\ slots[s].apology

\* the step of slot s that resumes a dispatch from its agent run leaves
\* every record but the dispatch's own as it was
OnlyOwnRecord(s) ==
    /\ Len(executions') = Len(executions)
    /\ \A i \in DOMAIN executions :
          i # slots[s].execId => executions'[i] = executions[i]

\* C14: dispatches that hold a TaskExecution (execute_task calls, reaction
\* handlers) hold pairwise distinct records; the step that resumes one of
\* them from its agent run writes only its own record, with the status,
\* result and error of its own agent outcome; no step removes a record; and
\* a dispatch waiting for its agent can resume whatever the others do.
C14_IndependentRecords ==
    /\ [](\A s, t \in Slots :
            (/\ s # t
             /\ slots[s].kind \in {"execute_task", "reaction"}
             /\ slots[t].kind \in {"execute_task", "reaction"}
             /\ slots[s].execId # NoId
             /\ slots[t].execId # NoId)
            => slots[s].execId # slots[t].execId)
    /\ [](\A s \in Slots :
            (slots[s].kind = "execute_task" /\ slots[s].pc = "agent_wait")
            => \A o \in Outcomes : ENABLED ET_Finish(s, o))
    /\ [][/\ Len(executions') >= Len(executions)
          /\ \A s \in Slots :
                /\ Resumes(s, "execute_task")
                   => /\ OnlyOwnRecord(s)
                      /\ LET f == slots'[s]
                             old == executions[slots[s].execId]
                             new == executions'[slots[s].execId]
                         IN  /\ new.status = IF AgentSucceeded(f)
                                             THEN "completed" ELSE "failed"
                             /\ new.result = IF f.exc # NoneStr
                                             THEN old.result ELSE f.res.output
                             /\ new.error = IF AgentSucceeded(f)
                                            THEN old.error ELSE Diagnostic(f)
                /\ (slots[s].kind = "reaction" /\ slots[s].pc = "agent_wait"
                    /\ slots'[s].pc # "agent_wait")
                   => /\ OnlyOwnRecord(s)
                      /\ AgentSucceeded(slots'[s])
                         => /\ executions'[slots[s].execId].status = "completed"
                            /\ executions'[slots[s].execId].result =
                                   slots'[s].res.output]_vars

\* two execute_task calls on the same template overlapped: the one whose
\* record was created second has finished (completed) while the first, whose
\* record is untouched, still waits for its agent
C14_Witness ==
    \E s, t \in Slots :
        /\ slots[s].kind = "execute_task" /\ slots[t].kind = "execute_task"
        /\ slots[s].tmpl = slots[t].tmpl
        /\ slots[s].pc = "agent_wait" /\ slots[t].pc = "done"
        /\ slots[s].execId < slots[t].execId
        /\ executions[slots[t].execId].status = "completed"
        /\ executions[slots[s].execId].status = "processing"

PathParts(tokens) == SelectSeq(tokens, LAMBDA t : t # ".")

\* following parts from value v leads through maps only, each holding the
\* next part as a key, to a value that is not null
RECURSIVE Reaches(_, _)
Reaches(v, parts) ==
    IF parts = <<>> THEN v # JNull
    ELSE /\ v.t = "map"
         /\ Head(parts) \in DOMAIN v.m
         /\ Reaches(v.m[Head(parts)], Tail(parts))

\* the rule's source path resolves to a value in the payload
Resolves(input_data, rule) ==
    /\ "source" \in DOMAIN rule
    /\ Reaches(JMap(input_data), PathParts(rule.source))

\* a call of _extract_context with a non-empty ruleset has returned a map
Extracted ==
    /\ invocation.fn = "_extract_context"
    /\ invocation.pc = "return"
    /\ invocation.context_rules # NoRules
    /\ invocation.ret.ok

\* C16: in the map returned by _extract_context for a non-empty ruleset, a
\* key whose rule has no default and whose source path does not resolve to
\* a value is absent; no key of a rule without default holds null.
C16_UnresolvedOmitted ==
    Extracted =>
        \A k \in DOMAIN invocation.context_rules :
            "default" \notin DOMAIN invocation.context_rules[k] =>
                /\ ~Resolves(invocation.input_data, invocation.context_rules[k])
                   => k \notin DOMAIN invocation.ret.context
                /\ k \in DOMAIN invocation.ret.context
                   => invocation.ret.context[k] # JNull

\* a ruleset of two rules, one of which finds nothing and is left out while
\* the other has its entry
C16_Witness ==
    /\ Extracted
    /\ DOMAIN invocation.context_rules = {"key", "also"}
    /\ ~Resolves(invocation.input_data, invocation.context_rules["key"])
    /\ DOMAIN invocation.ret.context = {"also"}

\* the walk along parts from value v is cut short: some value on the way is
\* no map, or lacks the next part as a key
RECURSIVE Blocked(_, _)
Blocked(v, parts) ==
    /\ parts # <<>>
    /\ \/ v.t # "map"
       \/ Head(parts) \notin DOMAIN v.m
       \/ Blocked(v.m[Head(parts)], Tail(parts))

\* C17: when a rule's path is cut short by a missing key or by a value that
\* is no map, _extract_context does not raise (shown for rulesets of that
\* one rule), and the returned map holds the rule's default under the key
\* if the rule has one and has no entry for the key otherwise.
C17_TraversalNeverRaises ==
    (/\ invocation.fn = "_extract_context"
     /\ invocation.pc = "return"
     /\ invocation.context_rules # NoRules)
    => \A k \in DOMAIN invocation.context_rules :
          LET rule == invocation.context_rules[k]
          IN  (/\ "source" \in DOMAIN rule
               /\ Blocked(JMap(invocation.input_data), PathParts(rule.source)))
              => /\ DOMAIN invocation.context_rules = {k} => invocation.ret.ok
                 /\ invocation.ret.ok =>
                       IF "default" \in DOMAIN rule
                       THEN /\ k \in DOMAIN invocation.ret.context
                            /\ invocation.ret.context[k] = rule.default
                       ELSE k \notin DOMAIN invocation.ret.context

\* the path data.id meets a text under "data": the rule's default is stored
C17_Witness ==
    /\ invocation.fn = "_extract_context"
    /\ invocation.pc = "return"
    /\ invocation.input_data = [data |-> JText("input")]
    /\ invocation.context_rules =
          [key |-> MakeRule({<<"data", ".", "id">>}, {}, {JText("dflt")})]
    /\ invocation.ret = [ok |-> TRUE, context |-> [key |-> JText("dflt")]]

\* the value the rule's path resolves to (the path is known to resolve)
RECURSIVE ValueAt(_, _)
ValueAt(v, parts) ==
    IF parts = <<>> THEN v ELSE ValueAt(v.m[Head(parts)], Tail(parts))

\* int(value) succeeds: numbers, bools and texts of digits
IntConvertible(v) ==
    \/ v.t \in {"int", "float", "bool"}
    \/ v.t = "str" /\ Head(v.s) = "digits"

\* C18: for a rule whose path resolves to a non-null value, the call
\* returns a map that has the key; under transform "int" the entry is an
\* integer, and it is 0 when the value has no integer conversion; under
\* transform "string" the entry is a text; with no transform it is the
\* value itself.
C18_Transforms ==
    (/\ invocation.fn = "_extract_context"
     /\ invocation.pc = "return"
     /\ invocation.context_rules # NoRules)
    => \A k \in DOMAIN invocation.context_rules :
          LET rule == invocation.context_rules[k]
              value == ValueAt(JMap(invocation.input_data), PathParts(rule.source))
          IN  Resolves(invocation.input_data, rule)
              => /\ invocation.ret.ok
                 /\ k \in DOMAIN invocation.ret.context
                 /\ LET out == invocation.ret.context[k]
                    IN  IF "transform" \notin DOMAIN rule THEN out = value
                        ELSE IF rule.transform = "string" THEN out.t = "str"
                        ELSE /\ out.t = "int"
                             /\ ~IntConvertible(value) => out = JInt(0)

\* the frame of a trigger_action call on an Action without a ruleset, once
\* line 166 has run
ExtractedWithoutRules(f) ==
    /\ f.kind = "trigger_action"
    /\ f.actionId \in DOMAIN actions
    /\ actions[f.actionId].context_rules = NoRules
    /\ f.ctx # NoDict

\* C19: when the Action has no extraction ruleset, the context that
\* trigger_action gets from _extract_context is the input payload unchanged
\* (same keys, same values), and the task created for the trigger carries
\* that payload as its context.
C19_NoRulesetPassesPayload ==
    \A s \in Slots :
        ExtractedWithoutRules(slots[s])
        => /\ slots[s].ctx = slots[s].payload
           /\ DOMAIN slots[s].ctx = DOMAIN slots[s].payload
           /\ slots[s].taskId # NoId
              => tasks[slots[s].taskId].context = slots[s].payload

C19_Witness ==
    \E s \in Slots :
        /\ ExtractedWithoutRules(slots[s])
        /\ slots[s].taskId # NoId
        /\ slots[s].payload \in Payloads
        /\ DOMAIN slots[s].payload # {}
        /\ tasks[slots[s].taskId].context = slots[s].payload

\* execute_task has returned after an agent run that exited successfully
ExecutedOk ==
    /\ invocation.fn = "execute_task"
    /\ invocation.pc = "return"
    /\ invocation.run.success

\* C20: when the agent exits successfully and its cleaned stdout does not
\* contain the marker EXTENSION_OUTPUT:, execute_task returns success = true,
\* extensions_output = {} and output equal to the cleaned stdout exactly,
\* untrimmed.
C20_NoMarkerUnchanged ==
    (ExecutedOk /\ ~HasMarker(invocation.run.output))
    => /\ invocation.ret.success
       /\ invocation.ret.extensions_output = EmptyDict
       /\ DOMAIN invocation.ret.extensions_output = {}
       /\ invocation.ret.output = invocation.run.output

\* an output with whitespace at both ends and a JSON object text, but no
\* marker
C20_Witness ==
    /\ ExecutedOk
    /\ ~HasMarker(invocation.run.output)
    /\ invocation.run.output = <<"sp", "a", "obj", "sp">>
    /\ invocation.ret.output = <<"sp", "a", "obj", "sp">>
    /\ invocation.ret.extensions_output = EmptyDict

\* the text before, and the text after, the first occurrence of the marker
FirstMarker(text) ==
    CHOOSE i \in 1 .. Len(text) :
        /\ text[i] = Marker
        /\ \A k \in 1 .. i - 1 : text[k] # Marker

BeforeMarker(text) == SubSeq(text, 1, FirstMarker(text) - 1)

AfterMarker(text) == SubSeq(text, FirstMarker(text) + 1, Len(text))

\* t is text without the whitespace at its two ends
IsTrimOf(t, text) ==
    \E i \in 1 .. Len(text) + 1, j \in 0 .. Len(text) :
        /\ i <= j + 1
        /\ t = SubSeq(text, i, j)
        /\ \A k \in 1 .. Len(text) : (k < i \/ k > j) => text[k] = "sp"
        /\ t # <<>> => (t[1] # "sp" /\ t[Len(t)] # "sp")

\* C21: when the cleaned stdout holds the marker followed by a valid JSON
\* object (and whitespace at most), execute_task returns success = true,
\* output equal to the text before the marker without its surrounding
\* whitespace, and extensions_output equal to the parsed object.
C21_MarkerWithObject ==
    (/\ ExecutedOk
     /\ HasMarker(invocation.run.output)
     /\ IsTrimOf(<<"obj">>, AfterMarker(invocation.run.output)))
    => /\ invocation.ret.success
       /\ IsTrimOf(invocation.ret.output, BeforeMarker(invocation.run.output))
       /\ invocation.ret.extensions_output = ObjValue

\* whitespace between the human text and the marker
C21_Witness ==
    /\ ExecutedOk
    /\ invocation.run.output = <<"a", "sp", Marker, "obj">>
    /\ invocation.ret.output = <<"a">>
    /\ invocation.ret.extensions_output = ObjValue

\* C22: when the cleaned stdout holds the marker but the text after it is
\* not a parsable JSON payload, execute_task returns success = true,
\* extensions_output = {} and output equal to the text before the marker:
\* neither the marker nor the payload is part of output.
C22_UnparsableKeepsPrefix ==
    (/\ ExecutedOk
     /\ HasMarker(invocation.run.output)
     /\ ~IsTrimOf(<<"obj">>, AfterMarker(invocation.run.output)))
    => /\ invocation.ret.success
       /\ invocation.ret.extensions_output = EmptyDict
       /\ ~HasMarker(invocation.ret.output)
       /\ \/ invocation.ret.output = BeforeMarker(invocation.run.output)
          \/ IsTrimOf(invocation.ret.output,
                      BeforeMarker(invocation.run.output))

\* C23: when the invoker reports failure, execute_task returns
\* success = false with output equal to the invoker's error text and context
\* equal to the caller's context argument, not the enhanced prompt; no
\* marker parsing is applied and the result has no extensions_output.
C23_InvokerFailure ==
    (/\ invocation.fn = "execute_task"
     /\ invocation.pc = "return"
     /\ ~invocation.run.success)
    => /\ ~invocation.ret.success
       /\ invocation.ret.output = invocation.run.error
       /\ invocation.ret.context = invocation.context
       /\ "extensions_output" \notin DOMAIN invocation.ret

\* an error text that holds the marker, after a call with a context that
\* was put into the prompt
C23_Witness ==
    /\ invocation.fn = "execute_task"
    /\ invocation.pc = "return"
    /\ ~invocation.run.success
    /\ HasMarker(invocation.run.error)
    /\ invocation.ret.output = invocation.run.error
    /\ "contexts" \in DOMAIN invocation.sent
    /\ invocation.ret.context = [data |-> JText("input")]

\* ---- properties of run_command -----------------------------------------
RunCommandReturned ==
    /\ invocation.fn = "run_command"
    /\ invocation.pc = "return"

\* C24: run_command always returns a triple: a non-zero exit code yields
\* (false, "", the stderr text unmodified); a failure to spawn the process
\* yields (false, "", the exception's text); exit code 0 yields (true, the
\* stdout with escape sequences and banner lines removed, None); so the
\* error component is None exactly when success is true.
C24_RunCommandTriple ==
    RunCommandReturned
    => /\ DOMAIN invocation.ret = {"success", "output", "error"}
       /\ invocation.ret.success <=> invocation.ret.error = NoText
       /\ ~invocation.spawned
          => invocation.ret = [success |-> FALSE, output |-> <<>>,
                               error |-> ExcText(invocation.exc)]
       /\ (invocation.spawned /\ invocation.returncode # 0)
          => invocation.ret = [success |-> FALSE, output |-> <<>>,
                               error |-> invocation.stderr]
       /\ (invocation.spawned /\ invocation.returncode = 0)
          => invocation.ret = [success |-> TRUE,
                               output |-> CleanOutput(invocation.stdout),
                               error |-> NoText]

\* ---- properties of the output cleaning ----------------------------------
\* an escape sequence starts somewhere in text
HasEscape(text) ==
    \E i \in 1 .. Len(text) :
        \/ Escape1Match(SubSeq(text, i, Len(text))) > 0
        \/ Escape2Match(SubSeq(text, i, Len(text))) > 0

\* a banner group starts at some line start of text
HasBanner(text) ==
    \E i \in {1} \cup {n + 1 : n \in NewlinesOf(text)} :
        /\ i <= Len(text)
        /\ BannerMatch(SubSeq(text, i, Len(text))) > 0

\* C25: the cleaning (strip_ansi_codes, then strip_loggin_rows) is
\* idempotent: cleaning the cleaned text changes nothing; and a text with no
\* escape sequence and no banner group is returned unchanged.
C25_CleanIdempotent ==
    /\ (invocation.fn = "clean" /\ invocation.pc = "twice")
       => invocation.twice = invocation.once
    /\ (/\ invocation.fn = "clean"
        /\ invocation.pc \in {"once", "twice"}
        /\ ~HasEscape(invocation.text)
        /\ ~HasBanner(invocation.text))
       => invocation.once = invocation.text

\* ---- properties of _split_message ---------------------------------------
\* the texts of a list joined in order
RECURSIVE Concat(_)
Concat(texts) ==
    IF texts = <<>> THEN <<>> ELSE Head(texts) \o Concat(Tail(texts))

\* the least n with n * c >= l
CeilDiv(l, c) == (l + c - 1) \div c

\* C26: for a string of length L >= 0 and a chunk size C >= 1,
\* _split_message returns exactly ceil(L / C) chunks, each of length at most
\* C and all but the last of length exactly C, whose concatenation in order
\* is the string.
C26_SplitExact ==
    (invocation.fn = "_split_message" /\ invocation.pc = "return")
    => LET chunks == invocation.ret
           c == invocation.chunk_size
       IN  /\ Len(chunks) = CeilDiv(Len(invocation.message), c)
           /\ \A k \in 1 .. Len(chunks) :
                 /\ Len(chunks[k]) <= c
                 /\ Len(chunks[k]) >= 1
                 /\ k < Len(chunks) => Len(chunks[k]) = c
           /\ Concat(chunks) = invocation.message

\* a split with full chunks and a shorter last one
C26_Witness ==
    /\ invocation.fn = "_split_message"
    /\ invocation.pc = "return"
    /\ invocation.message = <<"a", "b", "b", "a", "b">>
    /\ invocation.chunk_size = 2
    /\ invocation.ret = <<<<"a", "b">>, <<"b", "a">>, <<"b">>>>

\* ---- properties of _send_response ---------------------------------------
\* a call in the given mode whose formatted response is over the limit
LongResponse(mode) ==
    /\ invocation.fn = "_send_response"
    /\ invocation.pc # "call"
    /\ invocation.response_format = mode
    /\ Len(invocation.response) > DiscordLimit

\* C27: in "channel" mode with a formatted response of more than 2000
\* characters, every 1900-character chunk is posted to the channel as a new
\* message, in increasing index order and once each; the placeholder is
\* deleted only after the last chunk is posted; and the posted messages
\* joined in order are the formatted response.
C27_ChannelChunks ==
    /\ [](LongResponse("channel")
       => LET chunks == split_message(invocation.response, ChunkSize)
          IN  /\ Len(invocation.channel) <= Len(chunks)
              /\ \A k \in 1 .. Len(invocation.channel) :
                    invocation.channel[k] = chunks[k]
              /\ invocation.processing_msg.deleted
                 => invocation.channel = chunks
              /\ invocation.pc = "return"
                 => /\ invocation.processing_msg.deleted
                    /\ Concat(invocation.channel) = invocation.response
              /\ invocation.dm = <<>>
              /\ invocation.processing_msg.content = ProcessingText)
    /\ [][(LongResponse("channel") /\ invocation.processing_msg.deleted)
          => invocation'.channel = invocation.channel]_vars

\* three chunks posted and the placeholder deleted
C27_Witness ==
    /\ LongResponse("channel")
    /\ invocation.pc = "return"
    /\ Len(invocation.response) = 3801
    /\ Len(invocation.channel) = 3
    /\ Len(invocation.channel[3]) = 1
    /\ invocation.processing_msg.deleted

\* ---- properties of on_reaction_add --------------------------------------
\* C28: a reaction added by a bot user causes no trigger-config lookup, no
\* linked-Action lookup, no chat message, no TaskExecution record and no
\* agent invocation: the handler returns at once, before it has read the
\* emoji, and leaves the whole state unchanged.
C28_BotReactionIgnored ==
    /\ [](\A s \in Slots :
             (slots[s].kind = "reaction" /\ slots[s].user.bot)
             => /\ slots[s].pc = "done"
                /\ slots[s].emoji = NoneStr
                /\ ~slots[s].raised
                /\ slots[s].fault = NoneStr
                /\ slots[s].cfg = NoDict
                /\ slots[s].act = NoDict
                /\ slots[s].ph = NoneStr
                /\ ~slots[s].apology
                /\ slots[s].execId = NoId
                /\ ~slots[s].invoked)
    /\ [][\A s \in Slots :
             (Begins(s, "reaction") /\ slots'[s].user.bot)
             => UNCHANGED <<executions, statusLog, actions, tasks,
                             discord_configs>>]_vars

\* a bot's reaction has been handled, with an emoji that has a trigger
\* config, while a person's reaction is on its way to the agent
C28_Witness ==
    \E s, t \in Slots :
        /\ slots[s].kind = "reaction" /\ slots[s].user.bot
        /\ slots[s].pc = "done"
        /\ slots[t].kind = "reaction" /\ ~slots[t].user.bot
        /\ slots[t].execId # NoId

\* no trigger config of catch type "reaction" has this emoji
NoReactionConfig(emoji) ==
    ~\E i \in DOMAIN discord_configs :
        /\ discord_configs[i].catch_type = "reaction"
        /\ discord_configs[i].catch_value = emoji

\* no enabled Action is linked to this trigger config
NoEnabledAction(config_id) ==
    ~\E ac \in action_configs :
        /\ ac.config_type = "discord"
        /\ ac.config_id = config_id
        /\ ac.action_id \in DOMAIN actions
        /\ actions[ac.action_id].is_enabled

\* the handler has returned without a config or without an Action
Dropped(f) ==
    /\ f.kind = "reaction"
    /\ ~f.user.bot
    /\ f.pc = "done"
    /\ f.cfg = NoDict \/ f.act = NoDict

\* C29: when a non-bot reaction's emoji matches no trigger config of catch
\* type "reaction", or the matched config has no linked enabled Action, the
\* handler sends no message to any channel or user, creates no
\* TaskExecution, invokes no agent, and returns normally.
C29_UnmatchedDropped ==
    /\ [](\A s \in Slots :
             Dropped(slots[s])
             => /\ slots[s].ph = NoneStr
                /\ ~slots[s].apology
                /\ slots[s].execId = NoId
                /\ ~slots[s].invoked
                /\ ~slots[s].raised)
    /\ [][\A s \in Slots, e \in Emojis, m \in Messages, u \in Users :
             (RA_Begin(s, e, m, u) /\ ~u.bot /\ NoReactionConfig(e))
             => /\ Dropped(slots'[s])
                /\ UNCHANGED <<executions, statusLog, actions, tasks,
                             discord_configs>>]_vars
    /\ [][\A s \in Slots :
             (RA_GetAction(s) /\ NoEnabledAction(slots[s].cfg.id))
             => /\ Dropped(slots'[s])
                /\ UNCHANGED <<executions, statusLog, actions, tasks,
                             discord_configs>>]_vars

\* one reaction dropped for want of a config, one for want of an enabled
\* Action
C29_Witness ==
    \E s, t \in Slots :
        /\ Dropped(slots[s]) /\ slots[s].cfg = NoDict
        /\ Dropped(slots[t]) /\ slots[t].cfg # NoDict
        /\ NoEnabledAction(slots[t].cfg.id)

\* ---- properties of delete_discord_config --------------------------------
\* a delete_discord_config call has removed the config that held emoji
DeletedConfigOf(emoji) ==
    \E t \in Slots :
        /\ slots[t].kind = "delete_discord_config"
        /\ slots[t].ret.deleted
        /\ InitDiscordConfigs[slots[t].configId].catch_type = "reaction"
        /\ InitDiscordConfigs[slots[t].configId].catch_value = emoji

PastChecks(s) ==
    /\ slots[s].kind = "trigger_action"
    /\ \/ slots[s].pc \in {"ta_dispatch", "invoke", "agent_wait"}
       \/ slots[s].pc = "done" /\ slots[s].taskId # NoId

\* C31: after any trigger_action call that passes the Action-exists,
\* enabled and template-exists checks, the Action's last_triggered_at is
\* non-null, and it was written before the task was dispatched (the step
\* that writes it creates no task and calls no agent; the step that
\* dispatches finds it written), whether the task then succeeds or fails.
C31_StampBeforeDispatch ==
    /\ [](\A s \in Slots :
             PastChecks(s)
             => actions[slots[s].actionId].last_triggered_at # NoTime)
    /\ [][\A s \in Slots :
             /\ (slots[s].pc = "ta_get_task" /\ slots'[s].pc = "ta_dispatch")
                => /\ actions'[slots[s].actionId].last_triggered_at
                         > actions[slots[s].actionId].last_triggered_at
                   /\ tasks' = tasks
                   /\ executions' = executions
                   /\ ~slots'[s].invoked
             /\ (slots[s].pc = "ta_dispatch" /\ slots'[s].pc = "invoke")
                => /\ actions[slots[s].actionId].last_triggered_at # NoTime
                   /\ actions' = actions]_vars

\* two triggers passed the checks and returned, one with a task that
\* succeeded and one with a task that failed; both Actions carry the stamp
C31_Witness ==
    \E s, t \in Slots :
        /\ PastChecks(s) /\ slots[s].pc = "done" /\ slots[s].ret.success
        /\ PastChecks(t) /\ slots[t].pc = "done" /\ ~slots[t].ret.success
        /\ actions[slots[s].actionId].last_triggered_at # NoTime
        /\ actions[slots[t].actionId].last_triggered_at # NoTime

\* ---- C32 ----------------------------------------------------------------
\* lines 177-178 with a commit that raises: no try encloses the commit, so
\* the exception leaves the `async with` block and trigger_action; line 181
\* is not reached
TA_StampRaises(s) ==
    /\ slots[s].kind = "trigger_action"
    /\ slots[s].pc = "ta_get_task"
    /\ ~TaskMissing(actions[slots[s].actionId].task_id)
    /\ slots' = [slots EXCEPT ![s].pc = "done", ![s].fault = "ta_stamp",
                              ![s].raised = TRUE]
    /\ UNCHANGED <<executions, statusLog, actions, tasks, invocation,
                   discord_configs>>

NextStamp ==
    \/ Next
    \/ \E s \in Slots : TA_StampRaises(s)

\* the service with a database whose commit of the stamp may fail
SpecStamp == Init /\ [][NextStamp]_vars

\* C32: if writing the Action's last_triggered_at fails, trigger_action
\* still dispatches the task and returns the task's result: the failure
\* neither raises out of trigger_action nor prevents the task from being
\* created.
C32_StampBestEffort ==
    \A s \in Slots :
        (slots[s].kind = "trigger_action" /\ slots[s].fault = "ta_stamp")
        => /\ ~slots[s].raised
           /\ slots[s].pc = "done" => slots[s].taskId # NoId

\* ---- DiscordBotManager (src/api/services/discord_service.py) ------------
\* The singleton manager with the requests that call start_bot and
\* stop_bot and the background tasks that run _run_bot.  `invocation`
\* holds the manager's fields, the DISCORD_BOT_TOKEN setting row (stored),
\* the environment's token (env), the bots constructed so far with the
\* state of each one's connection, and one frame per coroutine.

\* requests (start_bot and stop_bot calls) issued in one run
MaxRequests == 3

StoredToken == "stored-token"

EnvToken == "env-token"

\* line 67-70
NoTokenResult == [success |-> FALSE, message |-> "token not configured"]

\* line 76
AlreadyRunningResult == [success |-> TRUE, message |-> "already running"]

\* line 81
StartingResult == [success |-> TRUE, message |-> "starting"]

\* line 86
NotRunningResult == [success |-> FALSE, message |-> "not running"]

\* line 93
StoppedResult == [success |-> TRUE, message |-> "stopped"]

\* line 96
StopErrorResult == [success |-> FALSE, message |-> "stop error"]

Frame(fn, pc) ==
    [fn |-> fn, pc |-> pc, token |-> NoneStr, bot |-> NoId, ret |-> NoDict]

\* lines 64-73: the stored setting's value when the row exists and the
\* value is not empty, else the environment's token, else none
DiscordToken(stored, env) ==
    IF stored # NoneStr /\ stored # "" THEN stored ELSE env

\* a start request goes on to schedule a bot whatever the flag says
MayStart_always(m) == TRUE

\* `if self._is_running` (line 75), negated
MayStart(m) == ~m._is_running

\* `if not self._is_running or not self._bot` (line 85)
NothingToStop(m) == ~m._is_running \/ m._bot = NoId

\* the flag is lowered and the reference kept
Stopped_flagOnly(m) == [m EXCEPT !._is_running = FALSE]

\* lines 90-91, and lines 143-144, 146-147
Stopped(m) == [m EXCEPT !._is_running = FALSE, !._bot = NoId]

Requests(m) ==
    Cardinality({i \in DOMAIN m.calls : m.calls[i].fn # "_run_bot"})

InitManager ==
    /\ executions = <<>>
    /\ statusLog = <<>>
    /\ actions = InitActions
    /\ tasks = <<ParentTask>>
    /\ slots = [s \in Slots |-> IdleSlot]
    /\ discord_configs = InitDiscordConfigs
    /\ invocation \in
          {[fn |-> "DiscordBotManager", stored |-> st, env |-> en,
            _is_running |-> FALSE, _bot |-> NoId,
            bots |-> <<>>, calls |-> <<>>] :
              st \in {NoneStr, "", StoredToken}, en \in {NoneStr, EnvToken}}

\* start_bot, lines 58-61: the call suspends in get_setting_by_key
SB_Call ==
    /\ invocation.fn = "DiscordBotManager"
    /\ Requests(invocation) < MaxRequests
    /\ invocation' = [invocation EXCEPT
           !.calls = Append(@, Frame("start_bot", "get_setting"))]
    /\ UNCHANGED <<executions, statusLog, actions, tasks, slots,
                   discord_configs>>

\* start_bot, lines 61-81: the setting arrives; no token, already running,
\* or a _run_bot task added to the request's background tasks
SB_Decide(i) ==
    /\ invocation.fn = "DiscordBotManager"
    /\ i \in DOMAIN invocation.calls
    /\ invocation.calls[i].fn = "start_bot"
    /\ invocation.calls[i].pc = "get_setting"
    /\ LET token == DiscordToken(invocation.stored, invocation.env)
           done(ret) == [invocation.calls[i] EXCEPT !.pc = "done", !.ret = ret]
       IN  invocation' =
             IF token = NoneStr
             THEN [invocation EXCEPT !.calls[i] = done(NoTokenResult)]
             ELSE IF ~MayStart(invocation)
             THEN [invocation EXCEPT !.calls[i] = done(AlreadyRunningResult)]
             ELSE [invocation EXCEPT
                     !.calls = Append([@ EXCEPT ![i] =
                                          [done(StartingResult)
                                             EXCEPT !.token = token]],
                                      [Frame("_run_bot", "scheduled")
                                         EXCEPT !.token = token])]
    /\ UNCHANGED <<executions, statusLog, actions, tasks, slots,
                   discord_configs>>

\* SettingService.remove_setting on the DISCORD_BOT_TOKEN row
RemoveSetting ==
    /\ invocation.fn = "DiscordBotManager"
    /\ invocation.stored # NoneStr
    /\ invocation' = [invocation EXCEPT !.stored = NoneStr]
    /\ UNCHANGED <<executions, statusLog, actions, tasks, slots,
                   discord_configs>>

\* _run_bot, lines 135-140: the bot is constructed and recorded, the flag
\* raised, and the task suspends in the bot's start()
RB_Begin(i) ==
    /\ invocation.fn = "DiscordBotManager"
    /\ i \in DOMAIN invocation.calls
    /\ invocation.calls[i].fn = "_run_bot"
    /\ invocation.calls[i].pc = "scheduled"
    /\ LET b == Len(invocation.bots) + 1
       IN  invocation' = [invocation EXCEPT
               !.bots = Append(@, "starting"),
               !._bot = b,
               !._is_running = TRUE,
               !.calls[i].bot = b,
               !.calls[i].pc = "start"]
    /\ UNCHANGED <<executions, statusLog, actions, tasks, slots,
                   discord_configs>>

\* inside start(): the login succeeds and the gateway connection is up
BotConnects(b) ==
    /\ invocation.fn = "DiscordBotManager"
    /\ b \in DOMAIN invocation.bots
    /\ invocation.bots[b] = "starting"
    /\ invocation' = [invocation EXCEPT !.bots[b] = "connected"]
    /\ UNCHANGED <<executions, statusLog, actions, tasks, slots,
                   discord_configs>>

\* _run_bot, lines 140-148: start() raises (login refused, connection
\* lost for good); the except and finally blocks clear the manager
RB_StartRaises(i) ==
    /\ invocation.fn = "DiscordBotManager"
    /\ i \in DOMAIN invocation.calls
    /\ invocation.calls[i].fn = "_run_bot"
    /\ invocation.calls[i].pc = "start"
    /\ invocation.bots[invocation.calls[i].bot] # "closed"
    /\ invocation' = [Stopped(invocation) EXCEPT
           !.bots[invocation.calls[i].bot] = "closed",
           !.calls[i].pc = "done"]
    /\ UNCHANGED <<executions, statusLog, actions, tasks, slots,
                   discord_configs>>

\* _run_bot, lines 140, 145-148: start() returns once the bot was closed;
\* the finally block clears the manager
RB_StartReturns(i) ==
    /\ invocation.fn = "DiscordBotManager"
    /\ i \in DOMAIN invocation.calls
    /\ invocation.calls[i].fn = "_run_bot"
    /\ invocation.calls[i].pc = "start"
    /\ invocation.bots[invocation.calls[i].bot] = "closed"
    /\ invocation' = [Stopped(invocation) EXCEPT !.calls[i].pc = "done"]
    /\ UNCHANGED <<executions, statusLog, actions, tasks, slots,
                   discord_configs>>

\* stop_bot, lines 85-89: nothing to stop, or the call suspends in the
\* close() of the bot the manager refers to
ST_Call ==
    /\ invocation.fn = "DiscordBotManager"
    /\ Requests(invocation) < MaxRequests
    /\ invocation' = [invocation EXCEPT
           !.calls = Append(@,
              IF NothingToStop(invocation)
              THEN [Frame("stop_bot", "done") EXCEPT !.ret = NotRunningResult]
              ELSE [Frame("stop_bot", "close") EXCEPT !.bot = invocation._bot])]
    /\ UNCHANGED <<executions, statusLog, actions, tasks, slots,
                   discord_configs>>

\* inside close(): the bot's connection is shut
BotCloses(i) ==
    /\ invocation.fn = "DiscordBotManager"
    /\ i \in DOMAIN invocation.calls
    /\ invocation.calls[i].fn = "stop_bot"
    /\ invocation.calls[i].pc = "close"
    /\ invocation.bots[invocation.calls[i].bot] # "closed"
    /\ invocation' = [invocation EXCEPT
           !.bots[invocation.calls[i].bot] = "closed"]
    /\ UNCHANGED <<executions, statusLog, actions, tasks, slots,
                   discord_configs>>

\* stop_bot, lines 89-93: close() returns
ST_CloseReturns(i) ==
    /\ invocation.fn = "DiscordBotManager"
    /\ i \in DOMAIN invocation.calls
    /\ invocation.calls[i].fn = "stop_bot"
    /\ invocation.calls[i].pc = "close"
    /\ invocation.bots[invocation.calls[i].bot] = "closed"
    /\ invocation' = [Stopped(invocation) EXCEPT
           !.calls[i].pc = "done", !.calls[i].ret = StoppedResult]
    /\ UNCHANGED <<executions, statusLog, actions, tasks, slots,
                   discord_configs>>

\* stop_bot, lines 89, 94-96: close() raises, before or after the
\* connection was shut; the except clause answers
ST_CloseRaises(i) ==
    /\ invocation.fn = "DiscordBotManager"
    /\ i \in DOMAIN invocation.calls
    /\ invocation.calls[i].fn = "stop_bot"
    /\ invocation.calls[i].pc = "close"
    /\ invocation' = [invocation EXCEPT
           !.calls[i].pc = "done", !.calls[i].ret = StopErrorResult]
    /\ UNCHANGED <<executions, statusLog, actions, tasks, slots,
                   discord_configs>>

Frames == 1 .. (2 * MaxRequests)

NextManager ==
    \/ SB_Call
    \/ \E i \in Frames : SB_Decide(i)
    \/ RemoveSetting
    \/ \E i \in Frames : RB_Begin(i)
    \/ \E b \in Frames : BotConnects(b)
    \/ \E i \in Frames : RB_StartRaises(i)
    \/ \E i \in Frames : RB_StartReturns(i)
    \/ ST_Call
    \/ \E i \in Frames : BotCloses(i)
    \/ \E i \in Frames : ST_CloseReturns(i)
    \/ \E i \in Frames : ST_CloseRaises(i)

\* the manager under any interleaving of its requests and bot tasks
SpecManager == InitManager /\ [][NextManager]_vars

\* ---- C33 ----------------------------------------------------------------
\* the start_bot call of frame i ends in this step
StartDecides(i) ==
    /\ i \in DOMAIN invocation.calls
    /\ invocation.calls[i].fn = "start_bot"
    /\ invocation.calls[i].pc = "get_setting"
    /\ invocation'.calls[i].pc = "done"

\* a background task is added in this step
Schedules == Len(invocation'.calls) > Len(invocation.calls)

TokenAvailable == DiscordToken(invocation.stored, invocation.env) # NoneStr

\* C33 as stated: start_bot schedules a background bot task only when a
\* token is available and the bot is not already running; with
\* _is_running true it returns success = true ("already running") and
\* schedules nothing; with no token in the stored settings or the
\* environment it returns success = false and schedules nothing.
C33_StartOnlyWhenIdle ==
    [][\A i \in Frames :
          StartDecides(i)
          => /\ Schedules => (TokenAvailable /\ ~invocation._is_running)
             /\ invocation._is_running
                => /\ invocation'.calls[i].ret = AlreadyRunningResult
                   /\ ~Schedules
             /\ ~TokenAvailable
                => /\ invocation'.calls[i].ret.success = FALSE
                   /\ ~Schedules]_vars

\* C33 amended: the token is looked for first.  With no token start_bot
\* returns success = false and schedules nothing, running or not; with a
\* token and _is_running true it returns success = true ("already
\* running") and schedules nothing; with a token and _is_running false it
\* schedules one _run_bot with that token and returns success = true.
C33_TokenCheckedFirst ==
    [][\A i \in Frames :
          StartDecides(i)
          => /\ Schedules <=> (TokenAvailable /\ ~invocation._is_running)
             /\ (TokenAvailable /\ invocation._is_running)
                => invocation'.calls[i].ret = AlreadyRunningResult
             /\ ~TokenAvailable
                => invocation'.calls[i].ret = NoTokenResult
             /\ Schedules
                => /\ Len(invocation'.calls) = Len(invocation.calls) + 1
                   /\ invocation'.calls[Len(invocation'.calls)].fn = "_run_bot"
                   /\ invocation'.calls[Len(invocation'.calls)].token
                         = DiscordToken(invocation.stored, invocation.env)
                   /\ invocation'.calls[i].ret = StartingResult
             /\ UNCHANGED <<invocation._is_running, invocation._bot,
                            invocation.bots>>]_vars

\* one start_bot scheduled a bot, one found it running, and one found no
\* token
C33_Witness ==
    /\ invocation.fn = "DiscordBotManager"
    /\ \E i, j, k \in DOMAIN invocation.calls :
          /\ invocation.calls[i].ret = StartingResult
          /\ invocation.calls[j].ret = AlreadyRunningResult
          /\ invocation.calls[k].ret = NoTokenResult

\* ---- C34 ----------------------------------------------------------------
\* the stop_bot call of frame i ends in this step (a call with nothing to
\* stop begins and ends in one step)
StopEnds(i) ==
    /\ i \in DOMAIN invocation'.calls
    /\ invocation'.calls[i].fn = "stop_bot"
    /\ invocation'.calls[i].pc = "done"
    /\ i \in DOMAIN invocation.calls => invocation.calls[i].pc = "close"

\* C34: stop_bot never raises: every call ends with a result.  When no bot
\* is running it returns success = false and changes no state; when a bot
\* is running and its close() succeeds it returns success = true with
\* _is_running = false and _bot cleared; when close() raises it returns
\* success = false and leaves _is_running and _bot unchanged.
C34_StopNeverRaises ==
    [][\A i \in Frames :
        /\ (/\ i \notin DOMAIN invocation.calls
            /\ i \in DOMAIN invocation'.calls
            /\ invocation'.calls[i].fn = "stop_bot")
           => (invocation'.calls[i].pc = "done"
                  <=> (~invocation._is_running \/ invocation._bot = NoId))
        /\ StopEnds(i)
          => /\ invocation'.calls[i].ret \in
                   {NotRunningResult, StoppedResult, StopErrorResult}
             /\ (i \notin DOMAIN invocation.calls)
                => /\ invocation'.calls[i].ret = NotRunningResult
                   /\ UNCHANGED <<invocation._is_running, invocation._bot,
                                  invocation.bots>>
             /\ (i \in DOMAIN invocation.calls
                    /\ invocation'.calls[i].ret.success)
                => /\ invocation.bots[invocation.calls[i].bot] = "closed"
                   /\ ~invocation'._is_running
                   /\ invocation'._bot = NoId
             /\ (i \in DOMAIN invocation.calls
                    /\ ~invocation'.calls[i].ret.success)
                => /\ invocation'.calls[i].ret = StopErrorResult
                   /\ UNCHANGED <<invocation._is_running, invocation._bot,
                                  invocation.bots>>]_vars

\* a stop whose close() raised left the bot tracked, and a later stop
\* closed it and cleared the manager
C34_Witness ==
    /\ invocation.fn = "DiscordBotManager"
    /\ ~invocation._is_running
    /\ invocation._bot = NoId
    /\ \E j, k \in DOMAIN invocation.calls :
          /\ j < k
          /\ invocation.calls[j].ret = StopErrorResult
          /\ invocation.calls[k].ret = StoppedResult
          /\ invocation.bots[invocation.calls[k].bot] = "closed"

\* ---- C36 ----------------------------------------------------------------
\* the bots whose connection is up
Connected == {b \in DOMAIN invocation.bots : invocation.bots[b] = "connected"}

\* C36: under any interleaving of start_bot calls and the _run_bot tasks
\* they schedule, at most one bot connection is live at any time.
C36_SingleConnection ==
    invocation.fn = "DiscordBotManager" => Cardinality(Connected) <= 1

\* ---- C37 ----------------------------------------------------------------
\* C37: whenever a bot started by _run_bot is still connected, the
\* manager's _is_running is true and _bot refers to that bot, under every
\* interleaving of start_bot, stop_bot and _run_bot.
C37_ConnectedIsTracked ==
    invocation.fn = "DiscordBotManager"
    => \A b \in Connected : invocation._is_running /\ invocation._bot = b

\* ---- conversation reconstruction (summarizer mode) ----------------------
\* From a trigger message: the prior window of channel history, the reply
\* ancestors chased one fetch at a time, the union deduplicated by id and
\* sorted by time, the reply tree, and its depth-first rendering.  A
\* channel is the sequence of its messages' reply-references, a message's
\* id being its position (ids grow with time); a rendered line is the
\* message's id with its indentation depth.

\* messages in the channel
MaxMsgs == 4

\* the history window (20 in the program)
WindowSize == 2

\* the id of a message that was deleted: fetching it finds nothing
GoneId == MaxMsgs + 1

\* a reply refers to an earlier message, which may have been deleted
Channels ==
    {refs \in [1 .. MaxMsgs -> 0 .. GoneId] :
        \A i \in 1 .. MaxMsgs : refs[i] < i \/ refs[i] = GoneId}

\* the trigger message and the messages before it, newest first
HistoryWindow(trigger) ==
    [k \in 1 .. (IF trigger > WindowSize THEN WindowSize + 1 ELSE trigger)
        |-> trigger + 1 - k]

\* deduplicate by id
Dedupe(collected) == {collected[k] : k \in DOMAIN collected}

RECURSIVE Chronological(_)
\* the ids of a set, oldest first
Chronological(ids) ==
    IF ids = {} THEN <<>>
    ELSE LET first == CHOOSE i \in ids : \A j \in ids : i <= j
         IN  <<first>> \o Chronological(ids \ {first})

\* only a message without a reply-reference starts a tree
IsRoot_unreferenced(refs, ids, id) == refs[id] = NoId

\* a root: no reply-reference, or a parent absent from the set
IsRoot(refs, ids, id) == refs[id] = NoId \/ refs[id] \notin ids

\* the messages attached under a parent
Replies(refs, ids, parent) ==
    {c \in ids : ~IsRoot(refs, ids, c) /\ refs[c] = parent}

RECURSIVE RenderNodes(_, _, _, _)
\* depth-first rendering of sibling nodes, each followed by its replies
\* one level deeper
RenderNodes(refs, ids, nodes, depth) ==
    IF nodes = <<>> THEN <<>>
    ELSE <<[id |-> Head(nodes), depth |-> depth]>>
         \o RenderNodes(refs, ids,
                        Chronological(Replies(refs, ids, Head(nodes))),
                        depth + 1)
         \o RenderNodes(refs, ids, Tail(nodes), depth)

\* the reply tree of a set of messages, rendered from its roots
FormatConversation(refs, ids) ==
    RenderNodes(refs, ids,
                Chronological({i \in ids : IsRoot(refs, ids, i)}), 0)

InitThread ==
    /\ executions = <<>>
    /\ statusLog = <<>>
    /\ actions = InitActions
    /\ tasks = <<ParentTask>>
    /\ slots = [s \in Slots |-> IdleSlot]
    /\ discord_configs = InitDiscordConfigs
    /\ invocation \in
          {[fn |-> "_collect_related_messages", pc |-> "call",
            refs |-> refs, trigger |-> t,
            collected |-> <<>>, chased |-> {}, rendered |-> <<>>] :
              refs \in Channels, t \in 1 .. MaxMsgs}

\* the history call returns the window
TH_History ==
    /\ invocation.fn = "_collect_related_messages"
    /\ invocation.pc = "call"
    /\ invocation' = [invocation EXCEPT
           !.collected = HistoryWindow(invocation.trigger),
           !.pc = "chase"]
    /\ UNCHANGED <<executions, statusLog, actions, tasks, slots,
                   discord_configs>>

\* the collected entries whose reply-reference has not been chased yet
Unchased ==
    {k \in DOMAIN invocation.collected :
        /\ k \notin invocation.chased
        /\ invocation.refs[invocation.collected[k]] # NoId}

\* one reply-reference is fetched: the ancestor joins the collection, or
\* the fetch finds nothing
TH_Fetch(k) ==
    /\ invocation.fn = "_collect_related_messages"
    /\ invocation.pc = "chase"
    /\ k \in Unchased
    /\ LET parent == invocation.refs[invocation.collected[k]]
       IN  invocation' = [invocation EXCEPT
               !.chased = @ \cup {k},
               !.collected = IF parent = GoneId \/ parent \in Dedupe(@)
                             THEN @ ELSE Append(@, parent)]
    /\ UNCHANGED <<executions, statusLog, actions, tasks, slots,
                   discord_configs>>

\* every reference was chased: the union is deduplicated and sorted, the
\* tree built and rendered
TH_Render ==
    /\ invocation.fn = "_collect_related_messages"
    /\ invocation.pc = "chase"
    /\ Unchased = {}
    /\ invocation' = [invocation EXCEPT
           !.rendered = FormatConversation(invocation.refs,
                                           Dedupe(invocation.collected)),
           !.pc = "done"]
    /\ UNCHANGED <<executions, statusLog, actions, tasks, slots,
                   discord_configs>>

NextThread ==
    \/ TH_History
    \/ \E k \in 1 .. MaxMsgs : TH_Fetch(k)
    \/ TH_Render

\* the reconstruction on its own, for every channel and trigger
SpecThread == InitThread /\ [][NextThread]_vars

\* ---- C35 ----------------------------------------------------------------
RECURSIVE Ancestry(_, _)
\* a message with the reply ancestors that can still be fetched
Ancestry(refs, id) ==
    {id} \cup (IF refs[id] \in 1 .. MaxMsgs THEN Ancestry(refs, refs[id])
               ELSE {})

\* the window's messages and their transitive reply ancestors
Related(refs, trigger) ==
    UNION {Ancestry(refs, HistoryWindow(trigger)[k]) :
              k \in DOMAIN HistoryWindow(trigger)}

RECURSIVE ChainLength(_, _, _)
\* replies to follow from a message up to its nearest root
ChainLength(refs, ids, id) ==
    IF refs[id] = NoId \/ refs[id] \notin ids THEN 0
    ELSE 1 + ChainLength(refs, ids, refs[id])

\* C35: conversation reconstruction from a trigger message is
\* deterministic: whatever the order of the fetches, the rendered reply
\* tree is the one of the window plus its transitive reply ancestors; in
\* it every collected message appears exactly once, at a depth equal to
\* the length of its reply chain up to its nearest root, where a message
\* with no reply-reference or with a parent absent from the set is a root.
C35_ReplyTree ==
    (invocation.fn = "_collect_related_messages" /\ invocation.pc = "done")
    => LET refs == invocation.refs
           ids == Related(refs, invocation.trigger)
           lines == invocation.rendered
       IN  /\ Dedupe(invocation.collected) = ids
           /\ {lines[k].id : k \in DOMAIN lines} = ids
           /\ Len(lines) = Cardinality(ids)
           /\ \A k \in DOMAIN lines :
                 lines[k].depth = ChainLength(refs, ids, lines[k].id)
           /\ lines = FormatConversation(refs, ids)

\* a rendered conversation with an ancestor from outside the window, a
\* message whose parent was deleted, and a reply two levels deep
C35_Witness ==
    /\ invocation.fn = "_collect_related_messages"
    /\ invocation.pc = "done"
    /\ \E k \in DOMAIN invocation.rendered :
          invocation.rendered[k].id < invocation.trigger - WindowSize
    /\ \E k \in DOMAIN invocation.rendered :
          /\ invocation.refs[invocation.rendered[k].id] = GoneId
          /\ invocation.rendered[k].depth = 0
    /\ \E k \in DOMAIN invocation.rendered : invocation.rendered[k].depth = 2

\* ---- C38 ----------------------------------------------------------------
\* a step by which the coroutine of slot s goes on after the call it
\* awaited returned
Continues(s) ==
    \/ ET_Invoke(s)
    \/ \E o \in Outcomes : ET_Finish(s, o)
    \/ TA_GetTask(s)
    \/ CT_Create(s)
    \/ CT_Invoke(s)
    \/ \E o \in Outcomes : CT_Finish(s, o)
    \/ RA_GetAction(s)
    \/ RA_Placeholder(s)
    \/ RA_GetTemplate(s)
    \/ RA_Create(s)
    \/ RA_Invoke(s)
    \/ \E o \in Outcomes : RA_Finish(s, o)
    \/ RA_Apology(s, TRUE)

\* the program when every awaited call returns: the event loop resumes
\* each coroutine whose call is over, and every agent invocation ends
SpecLive ==
    /\ Init
    /\ [][Next]_vars
    /\ \A s \in Slots : WF_vars(Continues(s))

\* C38: every TaskExecution record that a dispatch created eventually
\* reaches status completed or failed once its agent invocation has
\* returned, with success or with failure, on the execute_task path and on
\* the chat reaction path alike.
C38_RecordsReachTerminal ==
    \A s \in Slots :
        (/\ slots[s].kind \in {"execute_task", "reaction"}
         /\ slots[s].execId # NoId
         /\ slots[s].invoked)
        ~> (/\ slots[s].execId # NoId
            /\ \E i \in DOMAIN statusLog[slots[s].execId] :
                  statusLog[slots[s].execId][i] \in {"completed", "failed"})

\* ---- C39 ----------------------------------------------------------------
\* C39: in "reply" mode with a formatted response of more than 2000
\* characters, _send_response first edits the placeholder to chunk 0 and
\* then posts chunks 1..n-1 to the channel as new messages, in increasing
\* index order and once each; the placeholder is never deleted and nothing
\* is sent to the requester directly.
C39_ReplyChunks ==
    /\ [](LongResponse("reply")
       => LET chunks == split_message(invocation.response, ChunkSize)
              placeholder == invocation.processing_msg
          IN  /\ placeholder.content \in {ProcessingText, chunks[1]}
              /\ invocation.channel # <<>> => placeholder.content = chunks[1]
              /\ Len(invocation.channel) <= Len(chunks) - 1
              /\ \A k \in 1 .. Len(invocation.channel) :
                    invocation.channel[k] = chunks[k + 1]
              /\ invocation.pc = "return"
                 => /\ placeholder.content = chunks[1]
                    /\ Len(invocation.channel) = Len(chunks) - 1
                    /\ Concat(<<placeholder.content>> \o invocation.channel)
                          = invocation.response
              /\ ~placeholder.deleted
              /\ invocation.dm = <<>>)
    /\ [][(LongResponse("reply")
              /\ invocation.processing_msg.content # ProcessingText)
          => invocation'.processing_msg = invocation.processing_msg]_vars

\* the placeholder holds chunk 0 and the two other chunks were posted
C39_Witness ==
    /\ LongResponse("reply")
    /\ invocation.pc = "return"
    /\ Len(invocation.response) = 3801
    /\ Len(invocation.processing_msg.content) = ChunkSize
    /\ Len(invocation.channel) = 2
    /\ Len(invocation.channel[2]) = 1

\* ---- C40 ----------------------------------------------------------------
\* the messages that carry the result: what was posted to the channel,
\* sent to the requester, or edited into the placeholder in reply mode
ResultMessages ==
    {invocation.channel[k] : k \in DOMAIN invocation.channel}
    \cup {invocation.dm[k] : k \in DOMAIN invocation.dm}
    \cup (IF invocation.processing_msg.content \in {ProcessingText, DmNotice}
          THEN {} ELSE {invocation.processing_msg.content})

\* C40: for every agent output and response mode, each result-carrying
\* message that _send_response sends or edits into the placeholder has
\* length at most 2000: a formatted response of length <= 2000 goes out as
\* one message, a longer one only as chunks of at most 1900 characters.
C40_WithinLimit ==
    (invocation.fn = "_send_response" /\ invocation.pc # "call")
    => /\ \A m \in ResultMessages : Len(m) <= DiscordLimit
       /\ Len(invocation.response) <= DiscordLimit
          => /\ ResultMessages \subseteq {invocation.response}
             /\ Len(invocation.channel) + Len(invocation.dm) <= 1
       /\ Len(invocation.response) > DiscordLimit
          => \A m \in ResultMessages : Len(m) <= ChunkSize

\* a response of exactly 2000 characters went to the requester as one
\* message
C40_Witness ==
    /\ invocation.fn = "_send_response"
    /\ invocation.pc = "return"
    /\ invocation.response_format = "dm"
    /\ Len(invocation.response) = DiscordLimit
    /\ invocation.dm = <<invocation.response>>

====
